---------------------------- MODULE Spec2Model ----------------------------
(***************************************************************************)
(* A model of the OPE (Online Prompt Enhancer) request pipeline:           *)
(*   - the response validator/repairer (engine/validate.ts),               *)
(*   - the adapter router (engine/route.ts),                               *)
(*   - the context (overlay) table: validation, loading and the lazily     *)
(*     loaded process-wide singleton (ports/context.ts, contextConfig.ts), *)
(*   - the generate handler (routes/generate.ts) run by several            *)
(*     concurrent requests on one JavaScript event loop.  The code of a    *)
(*     request runs without interruption from one await to the next, so    *)
(*     each action of a request is one such stretch of handleGenerate.     *)
(*                                                                         *)
(* Numbers that are fractions in the source are kept as integers:          *)
(* temperatures and ambiguity scores in tenths, domain weights in halves.  *)
(***************************************************************************)
EXTENDS Integers, Sequences, FiniteSets, TLC

VARIABLES
    call,                  \* the pure-function harness: the call in progress
    env,                   \* process environment: configuration and contexts file
    contextPortSingleton,  \* contextConfig.ts: let contextPortSingleton
    loads,                 \* history: one entry per loadContexts() invocation
    req                    \* per request: position, inputs, locals and history

vars == <<call, env, contextPortSingleton, loads, req>>

----------------------------------------------------------------------------
(* Bounds of the model *)

\* Longest citations array (and nested array) in a modelled adapter reply.
MaxCitations == 2

----------------------------------------------------------------------------
(* Strings: the JavaScript string operations the code relies on *)

Whitespace == {" ", "\n", "\t", "\r"}

RECURSIVE TrimStart(_)
TrimStart(s) ==
    IF Len(s) > 0 /\ SubSeq(s, 1, 1) \in Whitespace
    THEN TrimStart(SubSeq(s, 2, Len(s)))
    ELSE s

RECURSIVE TrimEnd(_)
TrimEnd(s) ==
    IF Len(s) > 0 /\ SubSeq(s, Len(s), Len(s)) \in Whitespace
    THEN TrimEnd(SubSeq(s, 1, Len(s) - 1))
    ELSE s

\* trim that leaves the trailing whitespace
Trim_StartOnly(s) == TrimStart(s)

\* String.prototype.trim
Trim(s) == TrimEnd(TrimStart(s))

Digit(d) ==
    CASE d = 0 -> "0" [] d = 1 -> "1" [] d = 2 -> "2" [] d = 3 -> "3"
      [] d = 4 -> "4" [] d = 5 -> "5" [] d = 6 -> "6" [] d = 7 -> "7"
      [] d = 8 -> "8" [] d = 9 -> "9"

\* Number-to-string conversion of a natural number
RECURSIVE NumToString(_)
NumToString(n) ==
    IF n < 10 THEN Digit(n) ELSE NumToString(n \div 10) \o Digit(n % 10)

\* Array.prototype.join over a sequence of strings
RECURSIVE Join(_, _)
Join(strs, sep) ==
    IF Len(strs) = 0 THEN ""
    ELSE IF Len(strs) = 1 THEN strs[1]
    ELSE strs[1] \o sep \o Join(Tail(strs), sep)

\* The elements of a sequence that lie in a set, in order (Array.prototype.filter)
RECURSIVE SelectIn(_, _)
SelectIn(xs, S) ==
    IF Len(xs) = 0 THEN <<>>
    ELSE IF Head(xs) \in S THEN <<Head(xs)>> \o SelectIn(Tail(xs), S)
    ELSE SelectIn(Tail(xs), S)

----------------------------------------------------------------------------
(* JSON values, as JSON.parse builds them *)

JNull      == [t |-> "null"]
JBool(b)   == [t |-> "boolean", b |-> b]
JNum(n)    == [t |-> "number", n |-> n]
JStr(s)    == [t |-> "string", s |-> s]
JArr(xs)   == [t |-> "array", items |-> xs]
\* an object: f maps each own key to its value
JObj(f)    == [t |-> "object", f |-> f]

\* typeof with null reported as "null"
TypeOf_NullIsNull(v) ==
    CASE v.t = "null"    -> "null"
      [] v.t = "array"   -> "object"
      [] v.t = "object"  -> "object"
      [] OTHER           -> v.t

\* the JavaScript typeof of a parsed JSON value (undefined for an absent key)
TypeOf(v) ==
    CASE v.t = "null"    -> "object"
      [] v.t = "array"   -> "object"
      [] v.t = "object"  -> "object"
      [] OTHER           -> v.t

\* A thrown exception, as the value of a computation
Thrown(what) == [threw |-> TRUE, error |-> what]
Returned(v)  == [threw |-> FALSE, value |-> v]

(* String(v): ToString of a parsed JSON value.  A plain object goes through *)
(* OrdinaryToPrimitive: an own, non-callable "toString" key shadows          *)
(* Object.prototype.toString, valueOf returns the object itself, and the     *)
(* conversion throws a TypeError.  An array is joined with ",", null         *)
(* elements as "", every other element by ToString.                          *)
RECURSIVE ToStringJs(_)
ToStringJs(v) ==
    CASE v.t = "null"    -> Returned("null")
      [] v.t = "boolean" -> Returned(IF v.b THEN "true" ELSE "false")
      [] v.t = "number"  -> Returned(NumToString(v.n))
      [] v.t = "string"  -> Returned(v.s)
      [] v.t = "object"  ->
            IF "toString" \in DOMAIN v.f
            THEN Thrown("TypeError: Cannot convert object to primitive value")
            ELSE Returned("[object Object]")
      [] v.t = "array"   ->
            LET parts == [i \in 1..Len(v.items) |->
                            IF v.items[i].t = "null" THEN Returned("")
                            ELSE ToStringJs(v.items[i])]
            IN  IF \E i \in 1..Len(v.items) : parts[i].threw
                THEN Thrown("TypeError: Cannot convert object to primitive value")
                ELSE Returned(Join([i \in 1..Len(v.items) |-> parts[i].value], ","))

\* the characters JSON.stringify escapes in a string
RECURSIVE Escape(_)
Escape(s) ==
    IF Len(s) = 0 THEN ""
    ELSE IF Len(s) = 1
    THEN (IF s = "\n" THEN "\\n"
          ELSE IF s = "\"" THEN "\\\""
          ELSE IF s = "\\" THEN "\\\\"
          ELSE s)
    ELSE Escape(SubSeq(s, 1, Len(s) \div 2))
         \o Escape(SubSeq(s, Len(s) \div 2 + 1, Len(s)))

\* JSON.stringify of a parsed JSON value
RECURSIVE Stringify(_)
Stringify(v) ==
    CASE v.t = "null"    -> "null"
      [] v.t = "boolean" -> IF v.b THEN "true" ELSE "false"
      [] v.t = "number"  -> NumToString(v.n)
      [] v.t = "string"  -> "\"" \o Escape(v.s) \o "\""
      [] v.t = "array"   ->
            "[" \o Join([i \in 1..Len(v.items) |-> Stringify(v.items[i])], ",") \o "]"
      [] v.t = "object"  ->
            LET order == <<"answer", "citations", "toString", "note">>
                keys  == SelectIn(order, DOMAIN v.f)
            IN  "{" \o Join([i \in 1..Len(keys) |->
                               "\"" \o keys[i] \o "\":" \o Stringify(v.f[keys[i]])],
                            ",") \o "}"

\* A text that is not JSON; a text that is the serialisation of a value,
\* possibly padded with whitespace (JSON.parse skips it, trim removes it).
NotJson == [t |-> "not-json"]
PlainText(s)     == [raw |-> s, json |-> NotJson]
JsonText(v)      == [raw |-> Stringify(v), json |-> v]
PaddedJsonText(v) == [raw |-> " " \o Stringify(v) \o "\n", json |-> v]
\* an array written with whitespace between its tokens
SpacedArrayText == [raw |-> "[ 1 ]", json |-> JArr(<<JNum(1)>>)]

\* JSON.parse: the parsed value, or a SyntaxError
JsonParse(text) ==
    IF text.json = NotJson THEN Thrown("SyntaxError") ELSE Returned(text.json)

----------------------------------------------------------------------------
(* Citation URLs (lib/branded.ts) *)

Letters ==
    {"a","b","c","d","e","f","g","h","i","j","k","l","m","n","o","p","q","r",
     "s","t","u","v","w","x","y","z","A","B","C","D","E","F","G","H","I","J",
     "K","L","M","N","O","P","Q","R","S","T","U","V","W","X","Y","Z"}
SchemeChars == Letters \cup {"0","1","2","3","4","5","6","7","8","9","+","-","."}
SpecialSchemes == {"http", "https", "ftp", "ws", "wss"}

\* the position of the ":" that ends a URL scheme, 0 when the string has none
RECURSIVE SchemeEnd(_, _)
SchemeEnd(s, i) ==
    IF i > Len(s) THEN 0
    ELSE IF SubSeq(s, i, i) = ":" THEN i
    ELSE IF SubSeq(s, i, i) \in SchemeChars THEN SchemeEnd(s, i + 1)
    ELSE 0

RECURSIVE SkipSlashes(_)
SkipSlashes(s) ==
    IF Len(s) > 0 /\ SubSeq(s, 1, 1) \in {"/", "\\"}
    THEN SkipSlashes(SubSeq(s, 2, Len(s)))
    ELSE s

(* new URL(s) with no base succeeds: the (trimmed) string starts with a     *)
(* scheme, and a special scheme is followed by a non-empty host.             *)
UrlParses(s) ==
    LET u == Trim(s)
        e == IF Len(u) > 0 /\ SubSeq(u, 1, 1) \in Letters THEN SchemeEnd(u, 2) ELSE 0
    IN  /\ e > 0
        /\ SubSeq(u, 1, e - 1) \in SpecialSchemes
              => Len(SkipSlashes(SubSeq(u, e + 1, Len(u)))) > 0

makeCitationUrlSafe(s) ==
    IF s = "unknown" THEN s
    ELSE IF UrlParses(s) THEN s
    ELSE "unknown"

----------------------------------------------------------------------------
(* engine/validate.ts *)

Has(obj, key) == obj.t = "object" /\ key \in DOMAIN obj.f

\* typeof obj[key], "undefined" for an absent key
TypeOfField(obj, key) == IF Has(obj, key) THEN TypeOf(obj.f[key]) ELSE "undefined"

\* Array.isArray(obj[key])
IsArrayField(obj, key) == Has(obj, key) /\ obj.f[key].t = "array"

\* String(obj.answer ?? "")
AnswerString(obj) ==
    IF ~Has(obj, "answer") \/ obj.f["answer"].t = "null" THEN Returned("")
    ELSE ToStringJs(obj.f["answer"])

\* obj.citations.map((c) => makeCitationUrlSafe(String(c)))
MapCitations(items) ==
    LET strs == [i \in 1..Len(items) |-> ToStringJs(items[i])]
    IN  IF \E i \in 1..Len(items) : strs[i].threw
        THEN Thrown("TypeError: Cannot convert object to primitive value")
        ELSE Returned([i \in 1..Len(items) |-> makeCitationUrlSafe(strs[i].value)])

\* the issue pushed for every citation entry that is not a string, by index
RECURSIVE CitationIssues(_, _)
CitationIssues(items, idx) ==
    IF idx > Len(items) THEN <<>>
    ELSE (IF TypeOf(items[idx]) # "string"
          THEN <<"citation[" \o NumToString(idx - 1) \o "] was "
                    \o TypeOf(items[idx]) \o ", coerced to string">>
          ELSE <<>>) \o CitationIssues(items, idx + 1)

\* citations.filter((c) => c === "unknown" && String(c) !== "unknown")
InvalidCitations(citations) ==
    SelectSeq(citations, LAMBDA c : c = "unknown" /\ c # "unknown")

Repaired(value, reason, error) ==
    Returned([ok |-> TRUE, value |-> value, repaired |-> TRUE,
              repairReason |-> reason, originalError |-> error])

validateOrRepair(text) ==
    LET parsed == JsonParse(text) IN
    IF parsed.threw THEN
        Repaired([answer |-> Trim(text.raw), citations |-> <<>>],
                 "Invalid JSON - wrapped raw text as answer",
                 [kind |-> "INVALID_JSON", parseError |-> parsed.error])
    ELSE LET obj == parsed.value IN
    IF obj.t \in {"null", "boolean", "number", "string"} THEN
        Repaired([answer |-> Stringify(obj), citations |-> <<>>],
                 "Parsed value was not an object",
                 [kind |-> "INVALID_TYPES",
                  issues |-> <<"Expected object, got " \o TypeOf(obj)>>])
    ELSE LET missingFields ==
                 (IF ~Has(obj, "answer") THEN <<"answer">> ELSE <<>>)
                 \o (IF ~Has(obj, "citations") THEN <<"citations">> ELSE <<>>)
         IN
    IF Len(missingFields) > 0 THEN
        LET answer == IF Has(obj, "answer") THEN AnswerString(obj)
                      ELSE Returned(Trim(text.raw))
            citations == IF IsArrayField(obj, "citations")
                         THEN MapCitations(obj.f["citations"].items)
                         ELSE Returned(<<>>)
        IN  IF answer.threw THEN answer
            ELSE IF citations.threw THEN citations
            ELSE Repaired([answer |-> answer.value, citations |-> citations.value],
                          "Missing required fields: " \o Join(missingFields, ", "),
                          [kind |-> "MISSING_FIELDS", missingFields |-> missingFields])
    ELSE
        LET answer == AnswerString(obj)
            answerIssues ==
                IF TypeOfField(obj, "answer") # "string"
                THEN <<"answer was " \o TypeOfField(obj, "answer") \o ", coerced to string">>
                ELSE <<>>
            isArray == IsArrayField(obj, "citations")
            citations == IF isArray THEN MapCitations(obj.f["citations"].items)
                         ELSE Returned(<<>>)
            citationsIssues ==
                IF isArray THEN CitationIssues(obj.f["citations"].items, 1)
                ELSE <<"citations was " \o TypeOfField(obj, "citations")
                          \o ", expected array">>
        IN  IF answer.threw THEN answer
            ELSE IF citations.threw THEN citations
            ELSE LET invalidCitations == InvalidCitations(citations.value)
                     issues == answerIssues \o citationsIssues
                        \o (IF Len(invalidCitations) > 0
                            THEN <<NumToString(Len(invalidCitations))
                                  \o " citations were invalid URLs (coerced to \"unknown\")">>
                            ELSE <<>>)
                     value == [answer |-> answer.value, citations |-> citations.value]
                 IN  IF Len(issues) > 0
                     THEN Repaired(value, "Type coercion or validation issues",
                                   [kind |-> "INVALID_TYPES", issues |-> issues])
                     ELSE Returned([ok |-> TRUE, value |-> value, repaired |-> FALSE])

getValidationMetrics(result) ==
    IF ~result.repaired
    THEN [wasRepaired |-> FALSE, errorKind |-> "null", errorDetail |-> "null"]
    ELSE [wasRepaired |-> TRUE, errorKind |-> result.originalError.kind,
          errorDetail |-> result.repairReason]

----------------------------------------------------------------------------
(* engine/route.ts *)

\* route with the hint looked at before mock mode
route_HintBeforeMock(capabilities, targetHint) ==
    IF targetHint = "local" THEN
        IF capabilities.hasLocalHttp
        THEN [model |-> "local/http", adapter |-> "localHttp"]
        ELSE [model |-> "local/echo", adapter |-> "localEcho"]
    ELSE IF capabilities.isMockMode
        THEN [model |-> "local/mock", adapter |-> "mockRealistic"]
    ELSE IF capabilities.hasCloud
        THEN [model |-> "cloud/openai-style", adapter |-> "openaiStyle"]
    ELSE IF capabilities.hasLocalHttp
        THEN [model |-> "local/http", adapter |-> "localHttp"]
    ELSE [model |-> "local/echo", adapter |-> "localEcho"]

route(capabilities, targetHint) ==
    IF capabilities.isMockMode THEN [model |-> "local/mock", adapter |-> "mockRealistic"]
    ELSE IF targetHint = "local" THEN
        IF capabilities.hasLocalHttp
        THEN [model |-> "local/http", adapter |-> "localHttp"]
        ELSE [model |-> "local/echo", adapter |-> "localEcho"]
    ELSE IF capabilities.hasCloud
        THEN [model |-> "cloud/openai-style", adapter |-> "openaiStyle"]
    ELSE IF capabilities.hasLocalHttp
        THEN [model |-> "local/http", adapter |-> "localHttp"]
    ELSE [model |-> "local/echo", adapter |-> "localEcho"]

\* the hints the handler passes on: a valid hint, or undefined
Hints == {"undefined", "local", "cloud"}
Capabilities == [isMockMode : BOOLEAN, hasCloud : BOOLEAN, hasLocalHttp : BOOLEAN]

----------------------------------------------------------------------------
(* ports/context.ts: context (overlay) definitions, validation, the port *)

\* a missing optional value (undefined / null): of an object, of a string
Null == [t |-> "null"]
NullStr == "null"

MIN_TEMPERATURE == 0
MAX_TEMPERATURE == 20
MAX_MAX_TOKENS == 100000
MAX_TEXT_LENGTH == 250000

(* NaN, the number parseFloat and parseInt give for a value that is not a   *)
(* number; it stands outside every range here and is only ever compared,   *)
(* and a comparison with it is false                                       *)
NaN == -1000000

\* a < b and a <= b on numbers
Less(a, b) == a # NaN /\ b # NaN /\ a < b
LessEq(a, b) == a # NaN /\ b # NaN /\ a <= b

\* A text field of an instruction: its text and its length in characters
\* (kept apart so that an oversized field need not be spelled out).
TextField(s) == [text |-> s, length |-> Len(s)]
LongField(n) == [text |-> "aaa", length |-> n]

\* spread of an optional array field: ...(instr.additionalConstraints ?? [])
OptList(instr, key) == IF key \in DOMAIN instr THEN instr[key] ELSE <<>>
OptOne(instr, key)  == IF key \in DOMAIN instr THEN <<instr[key]>> ELSE <<>>

(* An instruction is a record holding only the fields that are present;     *)
(* temperatureOverride is in tenths.  Returns Null when valid.               *)
validateContextInstruction(instr) ==
    IF /\ "temperatureOverride" \in DOMAIN instr
       /\ \/ Less(instr.temperatureOverride, MIN_TEMPERATURE)
          \/ Less(MAX_TEMPERATURE, instr.temperatureOverride)
    THEN [kind |-> "INVALID_TEMPERATURE"]
    ELSE IF /\ "maxTokensOverride" \in DOMAIN instr
            /\ \/ LessEq(instr.maxTokensOverride, 0)
               \/ Less(MAX_MAX_TOKENS, instr.maxTokensOverride)
    THEN [kind |-> "INVALID_MAX_TOKENS"]
    ELSE LET textFields ==
                 OptOne(instr, "roleSuffix") \o OptOne(instr, "objectivePrefix")
                 \o OptOne(instr, "systemSuffix") \o OptOne(instr, "userPrefix")
                 \o OptList(instr, "additionalConstraints")
                 \o OptList(instr, "additionalStyle")
         IN  IF \E i \in 1..Len(textFields) : textFields[i].length > MAX_TEXT_LENGTH
             THEN [kind |-> "TEXT_TOO_LONG"]
             ELSE Null

(* makeContextPort: new Map(contexts.map((c) => [c.id, c])).  A Map keeps    *)
(* the last value set for a key and the order in which keys first appear.    *)
(* instance tells port objects apart (0: a port injected by the caller, n:   *)
(* the port built by the n-th load).                                         *)
makeContextPort(contexts, instance) == [contexts |-> contexts, instance |-> instance]

\* port.getContext(contextId): contextMap.get(contextId) ?? null
getContext(port, contextId) ==
    LET hits == {i \in 1..Len(port.contexts) : port.contexts[i].id = contextId}
    IN  IF hits = {} THEN Null
        ELSE port.contexts[CHOOSE i \in hits : \A j \in hits : j <= i]

\* port.listContexts(): Array.from(contextMap.keys())
RECURSIVE MapKeys(_, _)
MapKeys(contexts, seen) ==
    IF Len(contexts) = 0 THEN <<>>
    ELSE IF Head(contexts).id \in seen THEN MapKeys(Tail(contexts), seen)
    ELSE <<Head(contexts).id>> \o MapKeys(Tail(contexts), seen \cup {Head(contexts).id})

listContexts(port) == MapKeys(port.contexts, {})

----------------------------------------------------------------------------
(* lib/contextParser.ts and contextConfig.ts: loading the contexts file *)

Ok(v)  == [ok |-> TRUE, value |-> v]
Err(e) == [ok |-> FALSE, error |-> e]

(* The contexts file as the parser sees it: whether it can be read, and its  *)
(* YAML blocks in order, each with the id, name, description ("" when the    *)
(* block has none) and instruction it spells out.                            *)
\* parseYamlContext: the required-field checks at the end
parseYamlContext(block) ==
    IF block.id = "" THEN Err([kind |-> "MISSING_FIELD", detail |-> "id"])
    ELSE IF block.name = "" THEN Err([kind |-> "MISSING_FIELD", detail |-> "name"])
    ELSE IF block.description = ""
    THEN Err([kind |-> "MISSING_FIELD", detail |-> "description"])
    ELSE Ok(block)

\* parseContextsMarkdown leaving out the blocks that fail
parseContextsMarkdown_SkipBad(blocks) ==
    Ok(SelectSeq(blocks, LAMBDA block : parseYamlContext(block).ok))

\* parseContextsMarkdown: the first block that fails fails the whole file
parseContextsMarkdown(blocks) ==
    LET bad == {i \in 1..Len(blocks) : ~parseYamlContext(blocks[i]).ok}
    IN  IF bad = {} THEN Ok(blocks)
        ELSE parseYamlContext(blocks[CHOOSE i \in bad : \A j \in bad : i <= j])

parseContextsFile(file) ==
    IF ~file.readable THEN Err([kind |-> "FILE_NOT_FOUND", detail |-> "contexts.md"])
    ELSE parseContextsMarkdown(file.blocks)

\* the warnings loadContexts logs: one per context whose validation fails
RECURSIVE ValidationWarnings(_)
ValidationWarnings(contexts) ==
    IF Len(contexts) = 0 THEN <<>>
    ELSE (IF validateContextInstruction(Head(contexts).instruction) # Null
          THEN <<[contextId |-> Head(contexts).id,
                  error |-> validateContextInstruction(Head(contexts).instruction)]>>
          ELSE <<>>) \o ValidationWarnings(Tail(contexts))

(* loadContexts(): the port it resolves to and what it logged.  Every parsed *)
(* context is validated, the outcome is logged, and the port is made from    *)
(* all parsed contexts.                                                      *)
loadContexts(file, instance) ==
    LET result == parseContextsFile(file) IN
    IF ~result.ok
    THEN [port |-> makeContextPort(<<>>, instance), warnings |-> <<>>,
          failed |-> TRUE]
    ELSE [port |-> makeContextPort(result.value, instance),
          warnings |-> ValidationWarnings(result.value), failed |-> FALSE]

----------------------------------------------------------------------------
(* lib/patterns.ts and engine/enhance.ts: prompt analysis *)

(* A prompt is its text together with what the pattern tables match in it:  *)
(* kw[d] and pat[d], the number of keywords and of regular expressions of   *)
(* domain d found in the text (absent: 0), vague, the indices of the        *)
(* VAGUE_TERM_PATTERNS that match, and compound, whether                    *)
(* detectCompoundQuestion holds.                                            *)

\* DOMAIN_PATTERNS in declaration order; weight2 is twice the weight
DOMAIN_PATTERNS ==
    << [domain |-> "medical",     weight2 |-> 4],
       [domain |-> "legal",       weight2 |-> 4],
       [domain |-> "code",        weight2 |-> 2],
       [domain |-> "academic",    weight2 |-> 4],
       [domain |-> "business",    weight2 |-> 2],
       [domain |-> "educational", weight2 |-> 1],
       [domain |-> "creative",    weight2 |-> 2],
       [domain |-> "technical",   weight2 |-> 2] >>

MIN_KEYWORD_MATCHES == 2
MIN_PATTERN_MATCHES == 1

\* VAGUE_TERM_PATTERNS: term and score in tenths
VAGUE_TERM_PATTERNS ==
    << [term |-> "it", score |-> 8], [term |-> "this", score |-> 7],
       [term |-> "that", score |-> 7], [term |-> "make it better", score |-> 6],
       [term |-> "help", score |-> 9], [term |-> "incomplete question", score |-> 9],
       [term |-> "some things", score |-> 4], [term |-> "fix the issue", score |-> 5] >>

\* DOMAIN_EXAMPLES: the domains that have example pairs, and their pairs
DOMAIN_EXAMPLES ==
    [medical  |-> <<[user |-> "What are common cold symptoms?",
                     assistant |-> "{\"answer\": \"Common cold symptoms ...\"}"]>>,
     code     |-> <<[user |-> "How do I reverse a string in JavaScript?",
                     assistant |-> "{\"answer\": \"To reverse a string ...\"}"]>>,
     legal    |-> <<[user |-> "What is a contract?",
                     assistant |-> "{\"answer\": \"A contract is ...\"}"]>>,
     academic |-> <<[user |-> "What is peer review?",
                     assistant |-> "{\"answer\": \"Peer review is ...\"}"]>>]

Count(f, d) == IF d \in DOMAIN f THEN f[d] ELSE 0

\* the entries of DOMAIN_PATTERNS pushed on scores: index and points
Qualifies(prompt, i) ==
    \/ Count(prompt.kw, DOMAIN_PATTERNS[i].domain) >= MIN_KEYWORD_MATCHES
    \/ Count(prompt.pat, DOMAIN_PATTERNS[i].domain) >= MIN_PATTERN_MATCHES

Points(prompt, i) ==
    Count(prompt.kw, DOMAIN_PATTERNS[i].domain) * 1
        + Count(prompt.pat, DOMAIN_PATTERNS[i].domain) * 2

\* score(i) > score(j), the scores being Points / weight
ScoreAbove(prompt, i, j) ==
    Points(prompt, i) * DOMAIN_PATTERNS[j].weight2
        > Points(prompt, j) * DOMAIN_PATTERNS[i].weight2

\* detectDomain with the last of the entries that tie on the best score
detectDomain_LastOfTies(prompt) ==
    LET scores == {i \in 1..Len(DOMAIN_PATTERNS) : Qualifies(prompt, i)}
    IN  IF scores = {} THEN NullStr
        ELSE LET first == CHOOSE i \in scores :
                             \A j \in scores \ {i} :
                                 \/ ScoreAbove(prompt, i, j)
                                 \/ ~ScoreAbove(prompt, j, i) /\ i > j
             IN  IF Points(prompt, first) * 2 >= DOMAIN_PATTERNS[first].weight2
                 THEN DOMAIN_PATTERNS[first].domain
                 ELSE NullStr

(* detectDomain: the qualifying entries are sorted by descending score with *)
(* a stable sort, so the first of the sorted list is the best-scoring entry *)
(* that comes first in declaration order; it is returned when its score is  *)
(* at least 1.0.                                                            *)
detectDomain(prompt) ==
    LET scores == {i \in 1..Len(DOMAIN_PATTERNS) : Qualifies(prompt, i)}
    IN  IF scores = {} THEN NullStr
        ELSE LET first == CHOOSE i \in scores :
                             \A j \in scores \ {i} :
                                 \/ ScoreAbove(prompt, i, j)
                                 \/ ~ScoreAbove(prompt, j, i) /\ i < j
             IN  IF Points(prompt, first) * 2 >= DOMAIN_PATTERNS[first].weight2
                 THEN DOMAIN_PATTERNS[first].domain
                 ELSE NullStr

detectCompoundQuestion(prompt) == prompt.compound

RECURSIVE SumScores(_)
SumScores(S) ==
    IF S = {} THEN 0
    ELSE LET i == CHOOSE x \in S : TRUE
         IN  VAGUE_TERM_PATTERNS[i].score + SumScores(S \ {i})

\* calculateAmbiguityScore without the cap
calculateAmbiguityScore_Uncapped(prompt) ==
    SumScores(prompt.vague)
        + (IF Len(prompt.text) < 20 THEN 3 ELSE IF Len(prompt.text) < 50 THEN 1 ELSE 0)

\* calculateAmbiguityScore, in tenths
calculateAmbiguityScore(prompt) ==
    LET totalScore == SumScores(prompt.vague)
        lengthPenalty == IF Len(prompt.text) < 20 THEN 3
                         ELSE IF Len(prompt.text) < 50 THEN 1 ELSE 0
    IN  IF totalScore + lengthPenalty > 10 THEN 10 ELSE totalScore + lengthPenalty

getSuggestedExamples(domain) ==
    IF domain = NullStr THEN <<>>
    ELSE IF domain \in DOMAIN DOMAIN_EXAMPLES THEN DOMAIN_EXAMPLES[domain]
    ELSE <<>>

analyzePrompt(prompt) ==
    [detectedDomain     |-> detectDomain(prompt),
     isCompoundQuestion |-> detectCompoundQuestion(prompt),
     ambiguityScore     |-> calculateAmbiguityScore(prompt),
     suggestedExamples  |-> getSuggestedExamples(detectDomain(prompt))]

\* detectUserStory: the groups the two patterns capture are given with the prompt
detectUserStory(prompt) == prompt.story

\* a captured group is truthy: it took part in the match and is not empty
Captured(group) == group # NullStr /\ group # ""

structureUserStory(rawPrompt, info) ==
    Join(<<"Generate a comprehensive specification for this user story:", "">>
         \o (IF Captured(info.actor) THEN <<"**Actor**: " \o info.actor>> ELSE <<>>)
         \o (IF Captured(info.action) THEN <<"**Action**: " \o info.action>> ELSE <<>>)
         \o (IF Captured(info.benefit) THEN <<"**Benefit**: " \o info.benefit>> ELSE <<>>)
         \o <<"", "**Original**: " \o rawPrompt, "",
              "Include: API contracts, data models, acceptance criteria, edge cases, and test scenarios.">>,
         "\n")

\* parts.map((p, i) => `${i + 1}. ${p}`).join("\n")
Numbered(parts) ==
    Join([i \in 1..Len(parts) |-> NumToString(i) \o ". " \o parts[i]], "\n")

\* structureCompoundQuestion accepting a split on "and" whatever the parts' lengths
structureCompoundQuestion_ShortParts(prompt) ==
    IF Len(prompt.parts) <= 1
    THEN IF Len(prompt.andParts) > 1
         THEN Numbered(prompt.andParts)
         ELSE prompt.text
    ELSE Numbered(prompt.parts)

(* structureCompoundQuestion: prompt.parts and prompt.andParts are the text  *)
(* split on the two patterns, each piece trimmed, the empty pieces dropped  *)
structureCompoundQuestion(prompt) ==
    IF Len(prompt.parts) <= 1
    THEN IF /\ Len(prompt.andParts) > 1
            /\ \A i \in 1..Len(prompt.andParts) : Len(prompt.andParts[i]) > 10
         THEN Numbered(prompt.andParts)
         ELSE prompt.text
    ELSE Numbered(prompt.parts)

LowerCase ==
    [A |-> "a", B |-> "b", C |-> "c", D |-> "d", E |-> "e", F |-> "f", G |-> "g",
     H |-> "h", I |-> "i", J |-> "j", K |-> "k", L |-> "l", M |-> "m", N |-> "n",
     O |-> "o", P |-> "p", Q |-> "q", R |-> "r", S |-> "s", T |-> "t", U |-> "u",
     V |-> "v", W |-> "w", X |-> "x", Y |-> "y", Z |-> "z"]

\* String.prototype.toLowerCase
RECURSIVE ToLowerCase(_)
ToLowerCase(s) ==
    IF Len(s) = 0 THEN ""
    ELSE IF Len(s) = 1 THEN (IF s \in DOMAIN LowerCase THEN LowerCase[s] ELSE s)
    ELSE ToLowerCase(SubSeq(s, 1, Len(s) \div 2))
         \o ToLowerCase(SubSeq(s, Len(s) \div 2 + 1, Len(s)))

\* String.prototype.includes
Includes(s, sub) ==
    \E str \in {s} :
        \E i \in 1..(Len(str) - Len(sub) + 1) : SubSeq(str, i, i + Len(sub) - 1) = sub

\* the characters \w matches
WordChars == Letters \cup {"0","1","2","3","4","5","6","7","8","9","_"}

\* /^(?:fix|explain|help with)\s+(?:it|this|that)\b/i.test(text)
DanglingReference(text) ==
    \E t \in {ToLowerCase(text)} :
    \E verb \in {"fix", "explain", "help with"}, ref \in {"it", "this", "that"} :
        /\ Len(verb) <= Len(t)
        /\ SubSeq(t, 1, Len(verb)) = verb
        /\ \E gap \in 1..Len(t) :
              LET at == Len(verb) + gap + 1
                  after == at + Len(ref)
              IN  /\ after - 1 <= Len(t)
                  /\ \A k \in (Len(verb) + 1)..(at - 1) : SubSeq(t, k, k) \in Whitespace
                  /\ SubSeq(t, at, after - 1) = ref
                  /\ after <= Len(t) => SubSeq(t, after, after) \notin WordChars

\* improveClarityIfNeeded: ambiguityScore is in tenths
improveClarityIfNeeded(rawPrompt, ambiguityScore) ==
    IF ambiguityScore < 5
    THEN [improved |-> rawPrompt, wasImproved |-> FALSE]
    ELSE IF Len(rawPrompt) < 15 /\ ambiguityScore > 7
    THEN [improved |-> rawPrompt
                 \o "\n\n[Note: Please provide more context for a better response]",
          wasImproved |-> TRUE]
    ELSE IF DanglingReference(rawPrompt)
    THEN [improved |-> rawPrompt
                 \o "\n\n[Note: Please specify what \"it/this/that\" refers to for a targeted response]",
          wasImproved |-> TRUE]
    ELSE [improved |-> rawPrompt, wasImproved |-> FALSE]

(* the expansion of a "What is Docker?" question in the technical domain;   *)
(* the en dashes of the source are written as hyphens, its backquotes as   *)
(* apostrophes                                                              *)
DockerExpansion(trimmed) ==
    Join(<<trimmed,
      "",
      "You are writing for a junior software engineer (0-2 years of experience) who knows basic Linux/CLI and Git but is new to containers.",
      "",
      "## Goal",
      "Help the reader understand Docker well enough to decide when to use it, and to run a simple containerized app locally.",
      "",
      "## Success Criteria",
      "- The reader can explain images vs. containers in their own words.",
      "- The reader can build and run a container locally using the provided commands.",
      "- The reader can name at least 2 scenarios where Docker is a good fit and 2 where it is not.",
      "",
      "## Instructions",
      "1. Provide a one-sentence definition of Docker.",
      "2. Explain the mental model: images vs. containers vs. registries, and where Docker Engine fits.",
      "3. Describe at least 4 common use cases, each with a concrete example.",
      "4. Compare Docker to virtual machines (VMs) and mention at least one Docker-compatible alternative (e.g., Podman) in 1-2 sentences.",
      "5. Walk through a minimal end-to-end example:",
      "   - A tiny 'Dockerfile' (keep it under ~15 lines).",
      "   - 'docker build' and 'docker run' commands.",
      "   - What the user should see if it worked.",
      "6. End with a short checklist of pitfalls and best practices (ports, volumes, image size, secrets).",
      "",
      "## Output Constraints",
      "- Format: Markdown with headings and numbered sections matching the steps above.",
      "- Length: 600-900 words (excluding the JSON block).",
      "- Citations: include 3-5 authoritative sources as footnotes like [1], [2], [3] (prefer official Docker documentation).",
      "- Include a machine-readable summary at the end as a JSON object matching this schema:",
      "'''json",
      "{",
      "  \"oneSentenceDefinition\": \"string\",",
      "  \"keyConcepts\": [\"string\"],",
      "  \"useCases\": [\"string\"],",
      "  \"whenNotToUse\": [\"string\"],",
      "  \"commandsShown\": [\"string\"]",
      "}",
      "'''",
      "",
      "## Few-shot Example",
      "User: What is a container image?",
      "Assistant: A container image is an immutable template that packages an application and its dependencies so it can run consistently across environments. It is used to create containers.">>,
      "\n")

\* expandDefinitionQuestionIfNeeded without the limit of 80 characters on the term
expandDefinitionQuestionIfNeeded_NoTermLimit(text, prompt, analysis) ==
    LET trimmed == Trim(text)
        lower == ToLowerCase(trimmed)
        unchanged == [expanded |-> text, wasExpanded |-> FALSE]
        term == IF text = prompt.text /\ prompt.definitionTerm # NullStr
                THEN Trim(prompt.definitionTerm) ELSE ""
    IN  IF \/ Includes(lower, "please provide")
           \/ Includes(lower, "include ")
           \/ Includes(lower, "including ")
           \/ Includes(lower, "use cases")
           \/ Includes(trimmed, "\n")
        THEN unchanged
        ELSE IF text # prompt.text \/ prompt.definitionTerm = NullStr THEN unchanged
        ELSE IF term = "" THEN unchanged
        ELSE IF analysis.detectedDomain = "technical"
                /\ Includes(ToLowerCase(term), "docker")
        THEN [expanded |-> DockerExpansion(trimmed), wasExpanded |-> TRUE]
        ELSE [expanded |-> trimmed \o " Please provide an explanation of what "
                             \o term \o " is, including its purpose and main use cases.",
              wasExpanded |-> TRUE]

(* expandDefinitionQuestionIfNeeded(text, analysis), text being the prompt  *)
(* as enhanced so far.  A text that reaches the "What is X?" pattern has no *)
(* line break, so no note was appended to it, and the caller skips          *)
(* compound questions: it is the raw prompt, whose captured term is         *)
(* prompt.definitionTerm.                                                   *)
expandDefinitionQuestionIfNeeded(text, prompt, analysis) ==
    LET trimmed == Trim(text)
        lower == ToLowerCase(trimmed)
        unchanged == [expanded |-> text, wasExpanded |-> FALSE]
        term == IF text = prompt.text /\ prompt.definitionTerm # NullStr
                THEN Trim(prompt.definitionTerm) ELSE ""
    IN  IF \/ Includes(lower, "please provide")
           \/ Includes(lower, "include ")
           \/ Includes(lower, "including ")
           \/ Includes(lower, "use cases")
           \/ Includes(trimmed, "\n")
        THEN unchanged
        ELSE IF text # prompt.text \/ prompt.definitionTerm = NullStr THEN unchanged
        ELSE IF term = "" \/ Len(term) > 80 THEN unchanged
        ELSE IF analysis.detectedDomain = "technical"
                /\ Includes(ToLowerCase(term), "docker")
        THEN [expanded |-> DockerExpansion(trimmed), wasExpanded |-> TRUE]
        ELSE [expanded |-> trimmed \o " Please provide an explanation of what "
                             \o term \o " is, including its purpose and main use cases.",
              wasExpanded |-> TRUE]

\* enhancePrompt with mode "none", the analysis left out
NoEnhancement_NoAnalysis(prompt) ==
    [originalPrompt |-> prompt.text, enhancedPrompt |-> prompt.text,
     analysis |-> [detectedDomain |-> NullStr, isCompoundQuestion |-> FALSE,
                   ambiguityScore |-> 0, suggestedExamples |-> <<>>],
     enhancementsApplied |-> <<>>]

\* enhancePrompt with mode "none"
NoEnhancement(prompt) ==
    [originalPrompt |-> prompt.text, enhancedPrompt |-> prompt.text,
     analysis |-> analyzePrompt(prompt), enhancementsApplied |-> <<>>]

\* enhancement 6 deriving the template from the prompt as enhanced so far
UserStoryStep_FromEnhanced(prompt, enhanced) ==
    LET userStoryInfo == detectUserStory(prompt) IN
    IF userStoryInfo.isUserStory
    THEN [enhancedPrompt |-> structureUserStory(enhanced.enhancedPrompt, userStoryInfo),
          enhancementsApplied |->
              Append(enhanced.enhancementsApplied, "user_story_structured")]
    ELSE enhanced

\* enhancement 6: a user story is restructured from the raw prompt
UserStoryStep(prompt, enhanced) ==
    LET userStoryInfo == detectUserStory(prompt) IN
    IF userStoryInfo.isUserStory
    THEN [enhancedPrompt |-> structureUserStory(prompt.text, userStoryInfo),
          enhancementsApplied |->
              Append(enhanced.enhancementsApplied, "user_story_structured")]
    ELSE enhanced

\* enhancement 1: a compound question is split into numbered parts
CompoundStep(prompt, analysis) ==
    IF analysis.isCompoundQuestion /\ structureCompoundQuestion(prompt) # prompt.text
    THEN [enhancedPrompt |-> structureCompoundQuestion(prompt),
          enhancementsApplied |-> <<"structured_compound_question">>]
    ELSE [enhancedPrompt |-> prompt.text, enhancementsApplied |-> <<>>]

\* enhancement 2: a clarity note for an ambiguous prompt
ClarityStep(analysis, enhanced) ==
    LET clarity == improveClarityIfNeeded(enhanced.enhancedPrompt,
                                          analysis.ambiguityScore)
    IN  IF clarity.wasImproved
        THEN [enhancedPrompt |-> clarity.improved,
              enhancementsApplied |->
                  Append(enhanced.enhancementsApplied, "clarity_improvement")]
        ELSE enhanced

\* enhancement 3: a short definition question of a detected domain is expanded
DefinitionStep(prompt, analysis, enhanced) ==
    LET definition == expandDefinitionQuestionIfNeeded(enhanced.enhancedPrompt,
                                                       prompt, analysis)
    IN  IF /\ analysis.detectedDomain # NullStr
           /\ ~analysis.isCompoundQuestion
           /\ definition.wasExpanded
        THEN [enhancedPrompt |-> definition.expanded,
              enhancementsApplied |->
                  Append(enhanced.enhancementsApplied, "definition_question_expanded")]
        ELSE enhanced

\* enhancements 4 and 5 with the tag of the examples recorded first
DomainStep_ExamplesFirst(analysis, enhanced) ==
    [enhancedPrompt |-> enhanced.enhancedPrompt,
     enhancementsApplied |->
         enhanced.enhancementsApplied
         \o (IF Len(analysis.suggestedExamples) > 0
             THEN <<"examples_suggested">> ELSE <<>>)
         \o (IF analysis.detectedDomain # NullStr
             THEN <<"domain_detected:" \o analysis.detectedDomain>> ELSE <<>>)]

\* enhancements 4 and 5: the tags of the detected domain and of its examples
DomainStep(analysis, enhanced) ==
    [enhancedPrompt |-> enhanced.enhancedPrompt,
     enhancementsApplied |->
         enhanced.enhancementsApplied
         \o (IF analysis.detectedDomain # NullStr
             THEN <<"domain_detected:" \o analysis.detectedDomain>> ELSE <<>>)
         \o (IF Len(analysis.suggestedExamples) > 0
             THEN <<"examples_suggested">> ELSE <<>>)]

\* the value enhancePrompt returns in rules mode
Enhancement(prompt, analysis, enhanced) ==
    [originalPrompt |-> prompt.text, enhancedPrompt |-> enhanced.enhancedPrompt,
     analysis |-> analysis, enhancementsApplied |-> enhanced.enhancementsApplied]

\* enhancePrompt in rules mode: the enhancements in the order of the source,
\* each working on the prompt as enhanced so far
RulesEnhancement(prompt, analysis) ==
    Enhancement(prompt, analysis,
        UserStoryStep(prompt,
            DomainStep(analysis,
                DefinitionStep(prompt, analysis,
                    ClarityStep(analysis, CompoundStep(prompt, analysis))))))

enhancePrompt(prompt, mode) ==
    IF mode = "none" THEN NoEnhancement(prompt)
    ELSE RulesEnhancement(prompt, analyzePrompt(prompt))

----------------------------------------------------------------------------
(* routes/generate.ts: the display wrapper of the enhanced prompt *)

domainNames ==
    [code |-> "Software Development", medical |-> "Medical/Health",
     legal |-> "Legal", academic |-> "Academic/Research", business |-> "Business",
     educational |-> "Educational", creative |-> "Creative Writing",
     technical |-> "Technical Documentation"]

InSeq(x, xs) == \E i \in 1..Len(xs) : xs[i] = x

formatEnhancedPromptDisplay(enhancement) ==
    LET analysis == enhancement.analysis
        enhancements ==
            (IF analysis.detectedDomain # NullStr
             THEN <<"Domain: " \o domainNames[analysis.detectedDomain]>> ELSE <<>>)
            \o (IF InSeq("structured_compound_question", enhancement.enhancementsApplied)
                THEN <<"Structured multi-part question">> ELSE <<>>)
            \o (IF InSeq("clarity_improvement", enhancement.enhancementsApplied)
                THEN <<"Clarity improved">> ELSE <<>>)
            \o (IF Len(analysis.suggestedExamples) > 0
                THEN <<NumToString(Len(analysis.suggestedExamples))
                          \o " few-shot example(s) added">>
                ELSE <<>>)
        lines == <<Trim(enhancement.enhancedPrompt)>>
                 \o (IF Len(enhancements) > 0
                     THEN <<"", "--- Enhancements ---">>
                          \o [i \in 1..Len(enhancements) |-> "* " \o enhancements[i]]
                     ELSE <<>>)
    IN  Join(lines, "\n")

\* cfg.alwaysEnhance is the OPE_ALWAYS_ENHANCE_PROMPT environment flag
ensureDemoEnhancedPromptAlways(enhancement, cfg) ==
    LET alwaysEnhance == IF cfg.alwaysEnhance = "true" THEN TRUE
                         ELSE IF cfg.alwaysEnhance = "false" THEN FALSE
                         ELSE cfg.isMockMode
    IN  IF ~alwaysEnhance THEN enhancement
        ELSE [enhancement EXCEPT
                !.enhancedPrompt = formatEnhancedPromptDisplay(enhancement),
                !.enhancementsApplied =
                    IF InSeq("display_formatted", enhancement.enhancementsApplied)
                    THEN enhancement.enhancementsApplied
                    ELSE Append(enhancement.enhancementsApplied, "display_formatted")]

----------------------------------------------------------------------------
(* engine/analyze.ts, engine/synthesize.ts, engine/compile.ts *)

\* analyze with the word budget rounded down
analyze_RoundingDown(request, promptAnalysis) ==
    LET tt == IF request.taskType = "undefined" THEN "qa" ELSE request.taskType
        baseMaxWords == IF tt = "summarize" THEN 180
                        ELSE IF tt = "extract" THEN 120 ELSE 160
        multiplier == 100 + promptAnalysis.ambiguityScore * 3
                          + (IF promptAnalysis.isCompoundQuestion THEN 50 ELSE 0)
    IN  [needsJson |-> TRUE,
         needsCitations |-> \/ tt = "qa"
                            \/ tt = "summarize"
                            \/ promptAnalysis.detectedDomain = "academic",
         maxWords |-> (baseMaxWords * multiplier) \div 100]

\* analyze(req, promptAnalysis): ambiguityScore is in tenths
analyze(request, promptAnalysis) ==
    LET tt == IF request.taskType = "undefined" THEN "qa" ELSE request.taskType
        baseMaxWords == IF tt = "summarize" THEN 180
                        ELSE IF tt = "extract" THEN 120 ELSE 160
        \* complexityMultiplier, in hundredths
        multiplier == 100 + promptAnalysis.ambiguityScore * 3
                          + (IF promptAnalysis.isCompoundQuestion THEN 50 ELSE 0)
    IN  [needsJson |-> TRUE,
         needsCitations |-> \/ tt = "qa"
                            \/ tt = "summarize"
                            \/ promptAnalysis.detectedDomain = "academic",
         \* Math.round
         maxWords |-> (baseMaxWords * multiplier + 50) \div 100]

\* contextInstr?.field is truthy: present and not the empty string
HasText(contextInstr, key) ==
    /\ contextInstr # Null
    /\ key \in DOMAIN contextInstr
    /\ contextInstr[key].text # ""

HasField(contextInstr, key) == contextInstr # Null /\ key \in DOMAIN contextInstr

Texts(fields) == [i \in 1..Len(fields) |-> fields[i].text]

\* the first index from i on at which t has no character of S
RECURSIVE SkipWhile(_, _, _)
SkipWhile(t, i, S) ==
    IF i <= Len(t) /\ SubSeq(t, i, i) \in S THEN SkipWhile(t, i + 1, S) ELSE i

(* (\w+(?:\s+\w+)?) at d: the first word ends before e, the blanks after it *)
(* before f and the second word before g; NullStr if there is no word at d  *)
TwoWords(t, d, e, f, g) ==
    IF e = d THEN NullStr
    ELSE IF f > e /\ g > f THEN SubSeq(t, d, g - 1) ELSE SubSeq(t, d, e - 1)

SecondWord(t, d, e, f) == TwoWords(t, d, e, f, SkipWhile(t, f, WordChars))

FirstWord(t, d, e) == SecondWord(t, d, e, SkipWhile(t, e, Whitespace))

WordsAt(t, d) == FirstWord(t, d, SkipWhile(t, d, WordChars))

(* The i flag: the word, given in lower case, stands at i of the text in    *)
(* whatever case.                                                           *)
WordStandsAt(text, i, word) ==
    /\ i + Len(word) - 1 <= Len(text)
    /\ \A k \in 1..Len(word) :
          ToLowerCase(SubSeq(text, i + k - 1, i + k - 1)) = SubSeq(word, k, k)

(* The index after the given words, each followed by \s+, matched at i of   *)
(* the text; 0 if they do not match there.                                  *)
RECURSIVE AfterWords(_, _, _)
AfterWords(text, i, words) ==
    IF words = <<>> THEN i
    ELSE IF /\ WordStandsAt(text, i, Head(words))
            /\ SkipWhile(text, i + Len(Head(words)), Whitespace)
                  > i + Len(Head(words))
    THEN AfterWords(text, SkipWhile(text, i + Len(Head(words)), Whitespace),
                    Tail(words))
    ELSE 0

\* the greatest element of a set of indices
RightMost(S) == CHOOSE i \in S : \A j \in S : j <= i

(* the index after the lead that matches at i, 0 if none does; the leads of *)
(* a pattern exclude each other                                             *)
AfterLead(text, i, leads) ==
    RightMost({AfterWords(text, i, words) : words \in leads})

\* match[1] of the pattern, a lead followed by the two-word group, matched at i
GroupFrom(text, d) == IF d = 0 THEN NullStr ELSE WordsAt(text, d)

GroupAt(text, i, leads) == GroupFrom(text, AfterLead(text, i, leads))

\* the capture of the leftmost match among <<index, capture>> pairs, if any
LeftMost(captures) ==
    IF \A c \in captures : c[2] = NullStr THEN NullStr
    ELSE (CHOOSE c \in captures :
             /\ c[2] # NullStr
             /\ \A d \in captures : d[2] # NullStr => c[1] <= d[1])[2]

(* rawPrompt.match(pattern): match[1] of the leftmost match, NullStr        *)
(* without a match; starts holds every index a match can start at          *)
MatchGroup(text, starts, leads) ==
    LeftMost({<<i, GroupAt(text, i, leads)>> : i \in starts})

\* /what\s+(?:is|are)\s+(\w+(?:\s+\w+)?)/i
WhatPattern == {<<"what", "is">>, <<"what", "are">>}
\* /explain\s+(\w+(?:\s+\w+)?)/i
ExplainPattern == {<<"explain">>}
\* /how\s+(?:to|does|do)\s+(\w+(?:\s+\w+)?)/i
HowPattern == {<<"how", "to">>, <<"how", "does">>, <<"how", "do">>}

(* rawPrompt.toLowerCase().split(/\s+/).length: one more than the runs of   *)
(* blanks, which toLowerCase leaves where they are                          *)
WordCount(t) ==
    1 + Cardinality({i \in 1..Len(t) :
                        /\ SubSeq(t, i, i) \in Whitespace
                        /\ (i = Len(t) \/ SubSeq(t, i + 1, i + 1) \notin Whitespace)})

\* the first of the three captures that is there; a short text gets none otherwise
FirstCaptured(whatMatch, explainMatch, howMatch, words) ==
    IF whatMatch # NullStr THEN whatMatch
    ELSE IF explainMatch # NullStr THEN explainMatch
    ELSE IF howMatch # NullStr THEN howMatch
    ELSE IF words < 5 THEN NullStr
    ELSE NullStr

\* the indices of the text at which one of the letters stands
Candidates(text, letters) ==
    {i \in 1..Len(text) : SubSeq(text, i, i) \in letters}

(* extractPromptHint: a match of a pattern starts at the first letter of   *)
(* its lead                                                                 *)
HintOf(text) ==
    FirstCaptured(MatchGroup(text, Candidates(text, {"w", "W"}), WhatPattern),
                  MatchGroup(text, Candidates(text, {"e", "E"}), ExplainPattern),
                  MatchGroup(text, Candidates(text, {"h", "H"}), HowPattern),
                  WordCount(text))

extractPromptHint(rawPrompt) ==
    CHOOSE hint \in {HintOf(text) : text \in {rawPrompt}} : TRUE

synthesize(rawPrompt, a, contextInstr, suggestedExamples) ==
    LET constraintWord == NumToString(a.maxWords - 40) \o "-"
                              \o NumToString(a.maxWords) \o "-words"
        baseConstraints == <<"json-only", "cite-or-say-unknown", constraintWord>>
        baseStyle == <<"succinct", "use table only if clearly useful">>
        promptHint == extractPromptHint(rawPrompt)
        baseObjective ==
            IF promptHint # NullStr
            THEN "Answer about " \o promptHint \o " accurately and concisely."
            ELSE "Answer the user's request accurately and concisely."
    IN  [role |-> IF HasText(contextInstr, "roleSuffix")
                  THEN "precise expert " \o contextInstr.roleSuffix.text
                  ELSE "precise expert",
         objective |-> IF HasText(contextInstr, "objectivePrefix")
                       THEN contextInstr.objectivePrefix.text \o " " \o baseObjective
                       ELSE baseObjective,
         constraints |-> IF HasField(contextInstr, "additionalConstraints")
                         THEN baseConstraints \o Texts(contextInstr.additionalConstraints)
                         ELSE baseConstraints,
         style |-> IF HasField(contextInstr, "additionalStyle")
                   THEN baseStyle \o Texts(contextInstr.additionalStyle)
                   ELSE baseStyle,
         steps |-> <<"analyze", "answer">>,
         outputSchema |-> [answer |-> "string", citations |-> "string[]"],
         examples |-> suggestedExamples]

DEFAULT_TEMPERATURE == 10
DEFAULT_MAX_TOKENS == 600

\* compileIR with decoding defaults that also replace an override of 0
compileIR_ZeroIsAbsent(ir, rawPrompt, contextInstr) ==
    LET temperature == IF /\ HasField(contextInstr, "temperatureOverride")
                          /\ contextInstr.temperatureOverride # 0
                       THEN contextInstr.temperatureOverride ELSE DEFAULT_TEMPERATURE
        maxTokens == IF /\ HasField(contextInstr, "maxTokensOverride")
                        /\ contextInstr.maxTokensOverride # 0
                     THEN contextInstr.maxTokensOverride ELSE DEFAULT_MAX_TOKENS
    IN  IF Less(temperature, MIN_TEMPERATURE) \/ Less(MAX_TEMPERATURE, temperature)
        THEN Thrown("Temperature must be 0-2")
        ELSE IF LessEq(maxTokens, 0) THEN Thrown("MaxTokens must be positive")
        ELSE Returned([system |-> "ROLE: " \o ir.role, user |-> rawPrompt,
                       decoding |-> [temperature |-> temperature,
                                     maxTokens |-> maxTokens]])

\* makeTemperature / makeMaxTokens throw on a value out of range
compileIR(ir, rawPrompt, contextInstr) ==
    LET examplesText ==
            Join([i \in 1..Len(ir.examples) |->
                    "Example " \o NumToString(i) \o ":\nUser: " \o ir.examples[i].user
                        \o "\nAssistant: " \o ir.examples[i].assistant], "\n\n")
        systemText ==
            Join(<<"ROLE: " \o ir.role,
                   "OBJECTIVE: " \o ir.objective,
                   "CONSTRAINTS: " \o Join(ir.constraints, "; "),
                   "STYLE: " \o Join(ir.style, "; "),
                   "STEPS: " \o Join(ir.steps, " -> ")>>, "\n")
            \o (IF Len(ir.examples) > 0 THEN "\n\nEXAMPLES:\n" \o examplesText ELSE "")
            \o (IF HasText(contextInstr, "systemSuffix")
                THEN "\n\n" \o contextInstr.systemSuffix.text ELSE "")
        baseUser ==
            Join(<<"TASK:", rawPrompt, "",
                   "OUTPUT: Return a JSON object with fields:",
                   "- answer: string",
                   "- citations: string[] (URLs or source identifiers; use [] or ['unknown'] if none).">>,
                 "\n")
        userText == IF HasText(contextInstr, "userPrefix")
                    THEN contextInstr.userPrefix.text \o "\n\n" \o baseUser
                    ELSE baseUser
        temperature == IF HasField(contextInstr, "temperatureOverride")
                       THEN contextInstr.temperatureOverride ELSE DEFAULT_TEMPERATURE
        maxTokens == IF HasField(contextInstr, "maxTokensOverride")
                     THEN contextInstr.maxTokensOverride ELSE DEFAULT_MAX_TOKENS
    IN  IF Less(temperature, MIN_TEMPERATURE) \/ Less(MAX_TEMPERATURE, temperature)
        THEN Thrown("Temperature must be 0-2")
        ELSE IF LessEq(maxTokens, 0) THEN Thrown("MaxTokens must be positive")
        ELSE Returned([system |-> systemText, user |-> userText,
                       decoding |-> [temperature |-> temperature,
                                     maxTokens |-> maxTokens]])

----------------------------------------------------------------------------
(* lib/httpErrors.ts *)

\* mapAdapterErrorToHttpResponse with every failure answered as 500
mapAdapterErrorToHttpResponse_All500(error) ==
    [status |-> 500,
     error |-> error.kind,
     detail |-> IF error.kind = "NETWORK_ERROR" THEN error.body ELSE error.detail]

mapAdapterErrorToHttpResponse(error) ==
    [status |-> IF error.kind = "CONFIG_MISSING" THEN 500
                ELSE IF error.kind = "NETWORK_ERROR" THEN 502
                ELSE 500,
     error |-> error.kind,
     detail |-> IF error.kind = "NETWORK_ERROR" THEN error.body ELSE error.detail]

createErrorResponse(errorMessage, detail, status) ==
    [status |-> status, error |-> errorMessage, detail |-> detail]

createValidationError(message) == createErrorResponse("VALIDATION_ERROR", message, 400)

----------------------------------------------------------------------------
(* adapters: what a call can settle to *)

\* String.prototype.replaceAll("\n", " ")
RECURSIVE ReplaceNewlines(_)
ReplaceNewlines(s) ==
    IF Len(s) = 0 THEN ""
    ELSE IF Len(s) = 1 THEN (IF s = "\n" THEN " " ELSE s)
    ELSE ReplaceNewlines(SubSeq(s, 1, Len(s) \div 2))
         \o ReplaceNewlines(SubSeq(s, Len(s) \div 2 + 1, Len(s)))

\* String.prototype.slice(0, n)
Slice(s, n) == IF Len(s) <= n THEN s ELSE SubSeq(s, 1, n)

\* adapters/localEcho.ts
localEcho(args) ==
    Ok([text |-> PlainText(Join(<<"ECHO-MODE:",
                                  "SYSTEM => " \o Slice(ReplaceNewlines(args.system), 160),
                                  "USER   => " \o Slice(ReplaceNewlines(args.user), 320)>>,
                                "\n"))])

\* adapters/mockData.ts: the response when no dataset keyword matches
FALLBACK_RESPONSE ==
    [answer |-> "I can help you with that question. Based on your query, here's what I can tell you:\n\nThis is a demo response from the OPE (Online Prompt Enhancer) system running in mock mode. In production with a real AI model, you would receive a detailed, contextual answer.\n\nThe system has detected and enhanced your prompt, applying domain-specific optimizations and examples to improve the quality of AI responses.\n\nTry asking about: TypeScript, REST APIs, Docker, machine learning, Raft consensus, photosynthesis, or team productivity for pre-configured demo responses.",
     citations |-> <<>>]

\* findMockResponse: no prompt of the model holds a keyword of MOCK_DATASET
findMockResponse(userPrompt) == FALLBACK_RESPONSE

\* adapters/mockRealistic.ts: the reply is the JSON of the response found
\* JSON.stringify({answer, citations}) of a dataset response
MockText(mockResponse) ==
    JsonText(JObj([answer |-> JStr(mockResponse.answer),
                   citations |-> JArr(mockResponse.citations)]))

FallbackText == MockText(FALLBACK_RESPONSE)

mockRealistic(args) ==
    LET mockResponse == findMockResponse(args.user) IN
    Ok([text |-> IF mockResponse = FALLBACK_RESPONSE THEN FallbackText
                 ELSE MockText(mockResponse)])

\* replies of a model behind localHttp or openaiStyle
ModelReplies ==
    { JsonText(JObj([answer |-> JStr("A"),
                     citations |-> JArr(<<JStr("https://x.example/")>>)])),
      JsonText(JObj([answer |-> JObj([toString |-> JNum(1)]),
                     citations |-> JArr(<<>>)])) }

\* adapters/localHttp.ts, adapters/openaiStyle.ts: the typed failures
AdapterErrors ==
    { [kind |-> "CONFIG_MISSING", detail |-> "LLM_BASE_URL not set"],
      [kind |-> "NETWORK_ERROR", status |-> 503, body |-> "busy"],
      [kind |-> "INVALID_RESPONSE", detail |-> "Unexpected token"] }

AdapterOutcomes(adapter, args) ==
    IF adapter = "mockRealistic" THEN {mockRealistic(args)}
    ELSE IF adapter = "localEcho" THEN {localEcho(args)}
    ELSE {Err(e) : e \in AdapterErrors} \cup {Ok([text |-> t]) : t \in ModelReplies}

----------------------------------------------------------------------------
(* The environment of the process and the requests it receives *)

\* contexts.md: the medical and the code context
MedicalContext ==
    [id |-> "medical", name |-> "Medical Domain",
     description |-> "For medical and health-related queries with appropriate disclaimers",
     instruction |->
        [roleSuffix |-> TextField("in medical and health sciences"),
         additionalConstraints |->
            <<TextField("include medical disclaimer"),
              TextField("cite peer-reviewed medical sources when possible"),
              TextField("acknowledge when medical consultation is needed")>>,
         additionalStyle |->
            <<TextField("use accurate medical terminology"),
              TextField("be cautious and measured in health advice"),
              TextField("distinguish between general information and medical advice")>>,
         systemSuffix |-> TextField("IMPORTANT DISCLAIMER: Always include a clear statement that this is general information only and not medical advice. Users should consult qualified healthcare professionals for medical concerns.")]]

CodeContext ==
    [id |-> "code", name |-> "Software Development",
     description |-> "For programming and software development queries with practical examples",
     instruction |->
        [roleSuffix |-> TextField("as software engineer"),
         additionalConstraints |->
            <<TextField("include working code examples when relevant"),
              TextField("explain edge cases and error handling"),
              TextField("mention version compatibility when applicable")>>,
         additionalStyle |->
            <<TextField("use code blocks with language identifiers"),
              TextField("prefer readable code over clever code"),
              TextField("include comments for complex logic")>>,
         temperatureOverride |-> 1, maxTokensOverride |-> 1000,
         userPrefix |-> TextField("Provide practical, working code examples. Focus on clarity and best practices.")]]

\* test/context.test.ts: the context of the injected port
TestMedicalContext ==
    [id |-> "medical", name |-> "Medical", description |-> "Medical context",
     instruction |->
        [roleSuffix |-> TextField("in medical field"),
         additionalConstraints |-> <<TextField("include medical disclaimer")>>,
         systemSuffix |-> TextField("IMPORTANT: This is not medical advice.")]]

\* a context whose temperatureOverride is 3.0
HotContext ==
    [id |-> "hot", name |-> "Hot", description |-> "Too hot",
     instruction |-> [temperatureOverride |-> 30]]

\* a context whose temperatureOverride is spelled out ("temperatureOverride: high")
WordyContext ==
    [id |-> "hot", name |-> "Hot", description |-> "Temperature in words",
     instruction |-> [temperatureOverride |-> NaN]]

\* a block without a name
NamelessContext ==
    [id |-> "draft", name |-> "", description |-> "Unfinished",
     instruction |-> [roleSuffix |-> TextField("drafting")]]

\* the contexts file: as shipped with an invalid context added, with a
\* block that does not parse, with a number spelled out, and missing
ContextsFile   == [readable |-> TRUE,  blocks |-> <<MedicalContext, CodeContext, HotContext>>]
NamelessFile   == [readable |-> TRUE,  blocks |-> <<MedicalContext, NamelessContext>>]
WordyFile      == [readable |-> TRUE,  blocks |-> <<MedicalContext, CodeContext, WordyContext>>]
UnreadableFile == [readable |-> FALSE, blocks |-> <<>>]

MockConfig ==
    [isMockMode |-> TRUE, hasCloud |-> TRUE, hasLocalHttp |-> TRUE,
     alwaysEnhance |-> "unset"]
CloudConfig ==
    [isMockMode |-> FALSE, hasCloud |-> TRUE, hasLocalHttp |-> FALSE,
     alwaysEnhance |-> "unset"]
EchoConfig ==
    [isMockMode |-> FALSE, hasCloud |-> FALSE, hasLocalHttp |-> FALSE,
     alwaysEnhance |-> "true"]

Envs ==
    { [cfg |-> CloudConfig, file |-> ContextsFile],
      [cfg |-> MockConfig,  file |-> WordyFile],
      [cfg |-> EchoConfig,  file |-> NamelessFile],
      [cfg |-> EchoConfig,  file |-> UnreadableFile] }

Undefined == [t |-> "undefined"]

PlainPrompt ==
    [text |-> "What is the capital of France?",
     kw |-> [code |-> 1], pat |-> <<>>,
     vague |-> {}, compound |-> FALSE,
     definitionTerm |-> "the capital of France",
     parts |-> <<"What is the capital of France?">>,
     andParts |-> <<"What is the capital of France?">>,
     story |-> [isUserStory |-> FALSE]]

BlankPrompt ==
    [text |-> "  \n",
     kw |-> <<>>, pat |-> <<>>,
     vague |-> {}, compound |-> FALSE,
     definitionTerm |-> NullStr,
     parts |-> <<>>,
     andParts |-> <<>>,
     story |-> [isUserStory |-> FALSE]]

CodePrompt ==
    [text |-> "Write a function in JavaScript to sort an array",
     kw |-> [code |-> 2, creative |-> 1], pat |-> [code |-> 1],
     vague |-> {}, compound |-> FALSE,
     definitionTerm |-> NullStr,
     parts |-> <<"Write a function in JavaScript to sort an array">>,
     andParts |-> <<"Write a function in JavaScript to sort an array">>,
     story |-> [isUserStory |-> FALSE]]

MedicalPrompt ==
    [text |-> "What are the symptoms and treatment of diabetes?",
     kw |-> [medical |-> 2], pat |-> [medical |-> 1],
     vague |-> {}, compound |-> FALSE,
     definitionTerm |-> NullStr,
     parts |-> <<"What are the symptoms and treatment of diabetes?">>,
     andParts |-> <<"What are the symptoms", "treatment of diabetes?">>,
     story |-> [isUserStory |-> FALSE]]

Body(rawPrompt, taskType, targetHint, context, enhance) ==
    [rawPrompt |-> rawPrompt, taskType |-> taskType, targetHint |-> targetHint,
     context |-> context, enhance |-> enhance]

\* the port a test injects as ctxPort
InjectedPort == makeContextPort(<<TestMedicalContext>>, 0)

(* The calls of handleGenerate: the body and the ctxPort argument (Null when *)
(* the server calls it).                                                     *)
Calls ==
    { [body |-> Body(Undefined, "qa", "undefined", "undefined", "undefined"),
       ctxPort |-> Null],
      [body |-> Body(BlankPrompt, "undefined", "local", "medical", "undefined"),
       ctxPort |-> Null],
      [body |-> Body(CodePrompt, "undefined", "undefined", "medical", "undefined"),
       ctxPort |-> Null],
      [body |-> Body(CodePrompt, "summarize", "local", "undefined", "rules"),
       ctxPort |-> Null],
      [body |-> Body(PlainPrompt, "extract", "local", " ", "none"),
       ctxPort |-> Null],
      [body |-> Body(MedicalPrompt, "translate", "remote", "nope", "undefined"),
       ctxPort |-> Null],
      [body |-> Body(PlainPrompt, "qa", "cloud", " hot ", "undefined"),
       ctxPort |-> Null],
      [body |-> Body(MedicalPrompt, "qa", "undefined", "undefined", "undefined"),
       ctxPort |-> InjectedPort] }

----------------------------------------------------------------------------
(* routes/generate.ts: handleGenerate *)

\* Number of requests the server handles concurrently.
NumRequests == 2

Requests == 1..NumRequests

(* The locals of one invocation of handleGenerate, its position (pc), and   *)
(* history: the pipeline stages it has run, the adapter calls it has made    *)
(* and the awaits it has suspended at.                                       *)
InitReq ==
    [pc |-> "idle", body |-> Null, ctxPort |-> Null, request |-> Null,
     promise |-> Null, contextInstr |-> Null,
     effectiveContext |-> "undefined", baseEnhancement |-> Null,
     enhancement |-> Null, analysis |-> Null, ir |-> Null, compiled |-> Null,
     decision |-> Null, adapterResult |-> Null, validationResult |-> Null,
     response |-> Null, stages |-> <<>>, adapterCalls |-> 0, awaits |-> <<>>]

\* the input check at the top of handleGenerate
InvalidBody(body) ==
    \/ body.rawPrompt = Undefined
    \/ Len(Trim(body.rawPrompt.text)) = 0

\* the typed request built from the body ("undefined": the field is absent)
MakeRequest(body) ==
    [rawPrompt |-> body.rawPrompt,
     taskType |-> IF body.taskType \in {"qa", "extract", "summarize"}
                  THEN body.taskType ELSE "undefined",
     targetHint |-> IF body.targetHint \in {"local", "cloud"}
                    THEN body.targetHint ELSE "undefined",
     context |-> IF body.context # "undefined" /\ Len(Trim(body.context)) > 0
                 THEN Trim(body.context) ELSE "undefined",
     enhance |-> IF body.enhance \in {"rules", "none"}
                 THEN body.enhance ELSE "undefined"]

\* server.ts: an exception out of handleGenerate becomes a 500
ServerError(message) == [status |-> 500, error |-> message, thrown |-> TRUE]

\* stages 1 to 5: analyze, synthesize, compile, route, and the adapter call
RunStages(q) ==
    LET analysis == analyze(q.request, q.enhancement.analysis)
        ir == synthesize(q.baseEnhancement.enhancedPrompt, analysis, q.contextInstr,
                         q.enhancement.analysis.suggestedExamples)
        compiled == compileIR(ir, q.baseEnhancement.enhancedPrompt, q.contextInstr)
        capabilities == [hasCloud |-> env.cfg.hasCloud,
                         hasLocalHttp |-> env.cfg.hasLocalHttp,
                         isMockMode |-> env.cfg.isMockMode]
        decision == route(capabilities, q.request.targetHint)
    IN  IF compiled.threw
        THEN [q EXCEPT !.pc = "done", !.analysis = analysis, !.ir = ir,
                       !.stages = @ \o <<"analyze", "synthesize", "compile">>,
                       !.response = ServerError(compiled.error)]
        ELSE [q EXCEPT !.pc = "awaitAdapter", !.analysis = analysis, !.ir = ir,
                       !.compiled = compiled.value, !.decision = decision,
                       !.stages = @ \o <<"analyze", "synthesize", "compile",
                                         "route", "adapter">>,
                       !.adapterCalls = @ + 1,
                       !.awaits = Append(@, "adapter")]

\* AutoApply that never applies the overlay of the detected domain
AutoApply_Never(q, port) == RunStages([q EXCEPT !.promise = Null])

\* the detected domain is applied as the context when the port knows it
AutoApply(q, port) ==
    LET detectedCtx == getContext(port, q.enhancement.analysis.detectedDomain)
    IN  IF detectedCtx # Null
        THEN RunStages([q EXCEPT !.promise = Null,
                                 !.effectiveContext = detectedCtx.id,
                                 !.contextInstr = detectedCtx.instruction])
        ELSE RunStages([q EXCEPT !.promise = Null])

\* Enhance with the auto-apply decision taken whatever the explicit context
Enhance_AutoApplyAlways(q) ==
    LET enhanceMode == IF q.request.enhance = "undefined" THEN "rules"
                       ELSE q.request.enhance
        baseEnhancement == enhancePrompt(q.request.rawPrompt, enhanceMode)
        enhancement == ensureDemoEnhancedPromptAlways(baseEnhancement, env.cfg)
        q1 == [q EXCEPT !.baseEnhancement = baseEnhancement,
                        !.enhancement = enhancement,
                        !.effectiveContext = q.request.context,
                        !.stages = Append(@, "enhance")]
    IN  IF enhancement.analysis.detectedDomain # NullStr
        THEN IF q.ctxPort # Null THEN AutoApply(q1, q.ctxPort)
             ELSE [q1 EXCEPT !.pc = "awaitAutoApply",
                             !.awaits = Append(@, "getContextPort")]
        ELSE RunStages(q1)

\* stage 0 (enhance) and the decision to auto-apply the detected domain
Enhance(q) ==
    LET enhanceMode == IF q.request.enhance = "undefined" THEN "rules"
                       ELSE q.request.enhance
        baseEnhancement == enhancePrompt(q.request.rawPrompt, enhanceMode)
        enhancement == ensureDemoEnhancedPromptAlways(baseEnhancement, env.cfg)
        q1 == [q EXCEPT !.baseEnhancement = baseEnhancement,
                        !.enhancement = enhancement,
                        !.effectiveContext = q.request.context,
                        !.stages = Append(@, "enhance")]
    IN  IF q.request.context = "undefined"
           /\ enhancement.analysis.detectedDomain # NullStr
        THEN IF q.ctxPort # Null THEN AutoApply(q1, q.ctxPort)
             ELSE [q1 EXCEPT !.pc = "awaitAutoApply",
                             !.awaits = Append(@, "getContextPort")]
        ELSE RunStages(q1)

\* LookupContext with an unknown context ignored instead of rejected
LookupContext_IgnoreUnknown(q, port) ==
    LET ctx == getContext(port, q.request.context) IN
    IF ctx = Null
    THEN Enhance([q EXCEPT !.promise = Null])
    ELSE Enhance([q EXCEPT !.promise = Null, !.contextInstr = ctx.instruction])

\* the explicit context is looked up; an unknown one ends the request
LookupContext(q, port) ==
    LET ctx == getContext(port, q.request.context) IN
    IF ctx = Null
    THEN [q EXCEPT !.pc = "done", !.promise = Null,
                   !.response =
                      [status |-> 400, error |-> "Unknown context",
                       detail |-> "Context '" \o q.request.context
                                  \o "' not found. Available contexts: "
                                  \o Join(listContexts(port), ", ")]]
    ELSE Enhance([q EXCEPT !.promise = Null, !.contextInstr = ctx.instruction])

\* handleGenerate from its entry to its first await or return
Enter(c) ==
    LET q == [InitReq EXCEPT !.body = c.body, !.ctxPort = c.ctxPort] IN
    IF InvalidBody(c.body)
    THEN [q EXCEPT !.pc = "done",
                   !.response = createValidationError("rawPrompt is required")]
    ELSE LET q1 == [q EXCEPT !.request = MakeRequest(c.body)] IN
         IF q1.request.context # "undefined"
         THEN IF c.ctxPort # Null THEN LookupContext(q1, c.ctxPort)
              ELSE [q1 EXCEPT !.pc = "awaitContext",
                              !.awaits = Append(@, "getContextPort")]
         ELSE Enhance(q1)

\* handleGenerate after the adapter call has settled
Finish(q, adapterResult) ==
    IF ~adapterResult.ok
    THEN [q EXCEPT !.pc = "done", !.adapterResult = adapterResult,
                   !.response = mapAdapterErrorToHttpResponse(adapterResult.error)]
    ELSE LET validationResult == validateOrRepair(adapterResult.value.text) IN
         IF validationResult.threw
         THEN [q EXCEPT !.pc = "done", !.adapterResult = adapterResult,
                        !.stages = Append(@, "validate"),
                        !.response = ServerError(validationResult.error)]
         ELSE LET meta == [model |-> q.decision.model,
                           prompt |-> q.enhancement.enhancedPrompt,
                           ir |-> q.ir,
                           signature |-> [system |-> q.compiled.system,
                                          user |-> q.compiled.user],
                           decoding |-> q.compiled.decoding,
                           validation |->
                               getValidationMetrics(validationResult.value)]
                  hasEnhancements == Len(q.enhancement.enhancementsApplied) > 0
              IN  [q EXCEPT
                     !.pc = "done", !.adapterResult = adapterResult,
                     !.validationResult = validationResult.value,
                     !.stages = Append(@, "validate"),
                     !.response =
                        [status |-> 200,
                         output |-> validationResult.value.value,
                         meta |-> IF hasEnhancements
                                  THEN meta @@ [enhancement |-> q.enhancement]
                                  ELSE meta]]

----------------------------------------------------------------------------
(* contextConfig.ts: the lazily loaded singleton *)

\* getContextPort publishing an empty port while its load is under way
getContextPort_Placeholder(singleton, started) ==
    IF singleton = Null
    THEN [promise |-> [state |-> "loading", load |-> Len(started) + 1],
          loads |-> Append(started, [settled |-> FALSE]),
          singleton |-> makeContextPort(<<>>, 0)]
    ELSE [promise |-> [state |-> "resolved", port |-> singleton],
          loads |-> started,
          singleton |-> singleton]

(* getContextPort() up to its await.  With no singleton yet it starts       *)
(* loadContexts() and its promise waits for that load; otherwise it returns *)
(* the singleton.  The singleton itself is left as it is until a load       *)
(* settles.                                                                  *)
getContextPort(singleton, started) ==
    IF singleton = Null
    THEN [promise |-> [state |-> "loading", load |-> Len(started) + 1],
          loads |-> Append(started, [settled |-> FALSE]),
          singleton |-> singleton]
    ELSE [promise |-> [state |-> "resolved", port |-> singleton],
          loads |-> started,
          singleton |-> singleton]

\* the promise of getContextPort() can be resumed from
Resolved(promise) ==
    \/ promise.state = "resolved"
    \/ promise.state = "loading" /\ loads[promise.load].settled

\* the port the promise resolves to
PortOf(promise) ==
    IF promise.state = "resolved" THEN promise.port ELSE loads[promise.load].port

----------------------------------------------------------------------------
(* Actions *)

BeforeAdapter == {"awaitContext", "awaitAutoApply"}

\* request r runs a stretch of code and is left as q
Step(r, q) == req' = [req EXCEPT ![r] = q]

\* the call of getContextPort() a stretch ends with, if it ends with one
StepTo(r, q) ==
    IF q.pc \in BeforeAdapter
    THEN LET g == getContextPort(contextPortSingleton, loads) IN
         /\ Step(r, [q EXCEPT !.promise = g.promise])
         /\ loads' = g.loads
         /\ contextPortSingleton' = g.singleton
    ELSE /\ Step(r, q)
         /\ UNCHANGED <<loads, contextPortSingleton>>

(* a request arrives and handleGenerate runs to its first await or return;   *)
(* requests are numbered in their order of arrival                          *)
Receive(r) ==
    /\ req[r].pc = "idle"
    /\ \A p \in Requests : p < r => req[p].pc # "idle"
    /\ \E c \in Calls : StepTo(r, Enter(c))
    /\ UNCHANGED <<call, env>>

\* a loadContexts() settles: getContextPort() assigns the singleton
LoadSettles(l) ==
    /\ ~loads[l].settled
    /\ LET loaded == loadContexts(env.file, l) IN
       /\ loads' = [loads EXCEPT ![l] = [settled |-> TRUE, port |-> loaded.port,
                                         warnings |-> loaded.warnings,
                                         failed |-> loaded.failed]]
       /\ contextPortSingleton' = loaded.port
    /\ UNCHANGED <<call, env, req>>

\* generate.ts line 391: the await of the explicit context's port resumes
ResumeContext(r) ==
    /\ req[r].pc = "awaitContext"
    /\ Resolved(req[r].promise)
    /\ StepTo(r, LookupContext(req[r], PortOf(req[r].promise)))
    /\ UNCHANGED <<call, env>>

\* generate.ts line 435: the await of the auto-applied context's port resumes
ResumeAutoApply(r) ==
    /\ req[r].pc = "awaitAutoApply"
    /\ Resolved(req[r].promise)
    /\ StepTo(r, AutoApply(req[r], PortOf(req[r].promise)))
    /\ UNCHANGED <<call, env>>

\* the adapter call settles and handleGenerate runs to its return
AdapterSettles(r) ==
    /\ req[r].pc = "awaitAdapter"
    /\ \E outcome \in AdapterOutcomes(req[r].decision.adapter,
                                      [system |-> req[r].compiled.system,
                                       user |-> req[r].compiled.user]) :
          StepTo(r, Finish(req[r], outcome))
    /\ UNCHANGED <<call, env>>

Idle == [fn |-> "none"]

Init ==
    /\ env \in Envs
    /\ contextPortSingleton = Null
    /\ loads = <<>>
    /\ req = [r \in Requests |-> InitReq]
    /\ call = Idle

Next ==
    \/ \E r \in Requests : Receive(r)
    \/ \E l \in 1..Len(loads) : LoadSettles(l)
    \/ \E r \in Requests : ResumeContext(r)
    \/ \E r \in Requests : ResumeAutoApply(r)
    \/ \E r \in Requests : AdapterSettles(r)

Spec == Init /\ [][Next]_vars

----------------------------------------------------------------------------
(* The pure functions called on their own: validateOrRepair on the texts an *)
(* adapter can return, route on every capability set and hint.              *)

\* what a position of a parsed reply can hold
ElemValues ==
    { JNull, JBool(TRUE), JNum(1),
      JStr("https://x.example/"), JStr("Smith 2020"), JStr("unknown"),
      JStr("A"), JObj([note |-> JStr("n")]), JObj([toString |-> JNum(1)]) }

\* arrays of at most n such values
RECURSIVE ArraysUpTo(_)
ArraysUpTo(n) ==
    IF n = 0 THEN {<<>>}
    ELSE ArraysUpTo(n - 1)
         \cup {Append(xs, v) : xs \in {ys \in ArraysUpTo(n - 1) : Len(ys) = n - 1},
                               v \in ElemValues}

FieldValues == ElemValues \cup {JArr(xs) : xs \in ArraysUpTo(MaxCitations)}

\* the objects a reply can parse to: answer and citations present or not
ReplyObjects ==
    {JObj([answer |-> a, citations |-> c]) : a \in ElemValues, c \in FieldValues}
    \cup {JObj([answer |-> a]) : a \in ElemValues}
    \cup {JObj([citations |-> c]) : c \in FieldValues}
    \cup {JObj([note |-> JStr("n")])}

ReplyTexts ==
    {JsonText(v) : v \in ReplyObjects \cup FieldValues}
    \cup {PaddedJsonText(JObj([note |-> JStr("n")])),
          PlainText(" The answer is 42.\n"), PlainText(""),
          PlainText("plain text, not json"), SpacedArrayText}

ValidateCall(text) ==
    /\ call = Idle
    /\ call' = [fn |-> "validateOrRepair", text |-> text,
                result |-> validateOrRepair(text)]
    /\ UNCHANGED <<env, contextPortSingleton, loads, req>>

RouteCall(capabilities, targetHint) ==
    /\ call = Idle
    /\ call' = [fn |-> "route", capabilities |-> capabilities,
                targetHint |-> targetHint,
                result |-> route(capabilities, targetHint)]
    /\ UNCHANGED <<env, contextPortSingleton, loads, req>>

(* The prompts the functions of the prompt analysis are called on.  With   *)
(* each text go the matches in it of the patterns of lib/patterns.ts and   *)
(* of engine/analyze.ts: the keywords and patterns matched per domain, the *)
(* vague-term patterns matched (by position in VAGUE_TERM_PATTERNS),       *)
(* whether a compound pattern matches, the pieces the split patterns give, *)
(* and the groups the hint, definition and user-story patterns capture.    *)
Prompts ==
    {PlainPrompt, BlankPrompt, CodePrompt, MedicalPrompt}
    \cup
    {
      [text |-> "Fix it",
       kw |-> <<>>, pat |-> <<>>,
       vague |-> {1}, compound |-> FALSE,
       definitionTerm |-> NullStr,
       parts |-> <<"Fix it">>,
       andParts |-> <<"Fix it">>,
       story |-> [isUserStory |-> FALSE]],
      [text |-> "help",
       kw |-> <<>>, pat |-> <<>>,
       vague |-> {5}, compound |-> FALSE,
       definitionTerm |-> NullStr,
       parts |-> <<"help">>,
       andParts |-> <<"help">>,
       story |-> [isUserStory |-> FALSE]],
      [text |-> "Hello there",
       kw |-> <<>>, pat |-> <<>>,
       vague |-> {}, compound |-> FALSE,
       definitionTerm |-> NullStr,
       parts |-> <<"Hello there">>,
       andParts |-> <<"Hello there">>,
       story |-> [isUserStory |-> FALSE]],
      [text |-> "Tell me about the medicine",
       kw |-> [medical |-> 1], pat |-> <<>>,
       vague |-> {}, compound |-> FALSE,
       definitionTerm |-> NullStr,
       parts |-> <<"Tell me about the medicine">>,
       andParts |-> <<"Tell me about the medicine">>,
       story |-> [isUserStory |-> FALSE]],
      [text |-> "quarterly budget in python or javascript",
       kw |-> [code |-> 2, business |-> 2], pat |-> <<>>,
       vague |-> {}, compound |-> FALSE,
       definitionTerm |-> NullStr,
       parts |-> <<"quarterly budget in python or javascript">>,
       andParts |-> <<"quarterly budget in python or javascript">>,
       story |-> [isUserStory |-> FALSE]],
      [text |-> "Which doctor offers therapy within my quarterly budget?",
       kw |-> [medical |-> 2, business |-> 2], pat |-> <<>>,
       vague |-> {}, compound |-> FALSE,
       definitionTerm |-> NullStr,
       parts |-> <<"Which doctor offers therapy within my quarterly budget?">>,
       andParts |-> <<"Which doctor offers therapy within my quarterly budget?">>,
       story |-> [isUserStory |-> FALSE]],
      [text |-> "Which patient therapy fits my quarterly budget?",
       kw |-> [medical |-> 2, business |-> 2], pat |-> [medical |-> 1],
       vague |-> {}, compound |-> FALSE,
       definitionTerm |-> NullStr,
       parts |-> <<"Which patient therapy fits my quarterly budget?">>,
       andParts |-> <<"Which patient therapy fits my quarterly budget?">>,
       story |-> [isUserStory |-> FALSE]],
      [text |-> "Explain the basics",
       kw |-> [educational |-> 2], pat |-> <<>>,
       vague |-> {}, compound |-> FALSE,
       definitionTerm |-> NullStr,
       parts |-> <<"Explain the basics">>,
       andParts |-> <<"Explain the basics">>,
       story |-> [isUserStory |-> FALSE]],
      [text |-> "Fix this bug in my code please",
       kw |-> [code |-> 2], pat |-> [code |-> 1],
       vague |-> {2}, compound |-> FALSE,
       definitionTerm |-> NullStr,
       parts |-> <<"Fix this bug in my code please">>,
       andParts |-> <<"Fix this bug in my code please">>,
       story |-> [isUserStory |-> FALSE]],
      [text |-> "Explain this and also fix the bug",
       kw |-> [code |-> 1, educational |-> 1], pat |-> [code |-> 1],
       vague |-> {2, 8}, compound |-> TRUE,
       definitionTerm |-> NullStr,
       parts |-> <<"Explain this", "fix the bug">>,
       andParts |-> <<"Explain this", "also fix the bug">>,
       story |-> [isUserStory |-> FALSE]],
      [text |-> "Can you make it better? I have some stuff that needs to fix the problem",
       kw |-> <<>>, pat |-> <<>>,
       vague |-> {4, 7, 8}, compound |-> FALSE,
       definitionTerm |-> NullStr,
       parts |-> <<"Can you make it better? I have some stuff that needs to fix the problem">>,
       andParts |-> <<"Can you make it better? I have some stuff that needs to fix the problem">>,
       story |-> [isUserStory |-> FALSE]],
      [text |-> "What is system architecture?",
       kw |-> [technical |-> 2], pat |-> [technical |-> 1],
       vague |-> {}, compound |-> FALSE,
       definitionTerm |-> "system architecture",
       parts |-> <<"What is system architecture?">>,
       andParts |-> <<"What is system architecture?">>,
       story |-> [isUserStory |-> FALSE]],
      [text |-> "What is Docker deployment architecture?",
       kw |-> [technical |-> 2], pat |-> [technical |-> 1],
       vague |-> {}, compound |-> FALSE,
       definitionTerm |-> "Docker deployment architecture",
       parts |-> <<"What is Docker deployment architecture?">>,
       andParts |-> <<"What is Docker deployment architecture?">>,
       story |-> [isUserStory |-> FALSE]],
      [text |-> "What is included in system architecture?",
       kw |-> [technical |-> 2], pat |-> [technical |-> 1],
       vague |-> {}, compound |-> FALSE,
       definitionTerm |-> "included in system architecture",
       parts |-> <<"What is included in system architecture?">>,
       andParts |-> <<"What is included in system architecture?">>,
       story |-> [isUserStory |-> FALSE]],
      [text |-> "What is system architecture including deployment?",
       kw |-> [technical |-> 3], pat |-> [technical |-> 1],
       vague |-> {}, compound |-> FALSE,
       definitionTerm |-> "system architecture including deployment",
       parts |-> <<"What is system architecture including deployment?">>,
       andParts |-> <<"What is system architecture including deployment?">>,
       story |-> [isUserStory |-> FALSE]],
      [text |-> "What is Docker?",
       kw |-> <<>>, pat |-> <<>>,
       vague |-> {}, compound |-> FALSE,
       definitionTerm |-> "Docker",
       parts |-> <<"What is Docker?">>,
       andParts |-> <<"What is Docker?">>,
       story |-> [isUserStory |-> FALSE]],
      [text |-> "What is the best deployment architecture for a system of microservices with infrastructure scalability and performance goals?",
       kw |-> [technical |-> 4], pat |-> [technical |-> 1],
       vague |-> {}, compound |-> FALSE,
       definitionTerm |-> "the best deployment architecture for a system of microservices with infrastructure scalability and performance goals",
       parts |-> <<"What is the best deployment architecture for a system of microservices with infrastructure scalability and performance goals?">>,
       andParts |-> <<"What is the best deployment architecture for a system of microservices with infrastructure scalability", "performance goals?">>,
       story |-> [isUserStory |-> FALSE]],
      [text |-> "What is system architecture",
       kw |-> [technical |-> 2], pat |-> [technical |-> 1],
       vague |-> {}, compound |-> FALSE,
       definitionTerm |-> NullStr,
       parts |-> <<"What is system architecture">>,
       andParts |-> <<"What is system architecture">>,
       story |-> [isUserStory |-> FALSE]],
      [text |-> "What is system architecture? What is deployment?",
       kw |-> [technical |-> 3], pat |-> [technical |-> 1],
       vague |-> {}, compound |-> TRUE,
       definitionTerm |-> "system architecture? What is deployment",
       parts |-> <<"What is system architecture? What is deployment?">>,
       andParts |-> <<"What is system architecture? What is deployment?">>,
       story |-> [isUserStory |-> FALSE]],
      [text |-> "First fix the bug and re-test it",
       kw |-> [code |-> 1], pat |-> [code |-> 1],
       vague |-> {8}, compound |-> TRUE,
       definitionTerm |-> NullStr,
       parts |-> <<"First fix the bug and re-test it">>,
       andParts |-> <<"First fix the bug", "re-test it">>,
       story |-> [isUserStory |-> FALSE]],
      [text |-> "First fix the bug and re-test all",
       kw |-> [code |-> 1], pat |-> [code |-> 1],
       vague |-> {8}, compound |-> TRUE,
       definitionTerm |-> NullStr,
       parts |-> <<"First fix the bug and re-test all">>,
       andParts |-> <<"First fix the bug", "re-test all">>,
       story |-> [isUserStory |-> FALSE]],
      [text |-> "Explain what is happening and how to fix it",
       kw |-> [educational |-> 1], pat |-> [educational |-> 1],
       vague |-> {}, compound |-> FALSE,
       definitionTerm |-> NullStr,
       parts |-> <<"Explain what is happening and how to fix it">>,
       andParts |-> <<"Explain what is happening", "how to fix it">>,
       story |-> [isUserStory |-> FALSE]],
      [text |-> "Tell me how to deploy it quickly",
       kw |-> <<>>, pat |-> <<>>,
       vague |-> {}, compound |-> FALSE,
       definitionTerm |-> NullStr,
       parts |-> <<"Tell me how to deploy it quickly">>,
       andParts |-> <<"Tell me how to deploy it quickly">>,
       story |-> [isUserStory |-> FALSE]],
      [text |-> "As a user, I want to reset my password so that I can log in again",
       kw |-> <<>>, pat |-> <<>>,
       vague |-> {}, compound |-> FALSE,
       definitionTerm |-> NullStr,
       parts |-> <<"As a user, I want to reset my password so that I can log in again">>,
       andParts |-> <<"As a user, I want to reset my password so that I can log in again">>,
       story |-> [isUserStory |-> TRUE, actor |-> "user", action |-> "reset my password", benefit |-> "I can log in again"]],
      [text |-> "As a developer, I want to fix the bug and also fix the error handling",
       kw |-> [code |-> 2], pat |-> [code |-> 1],
       vague |-> {8}, compound |-> TRUE,
       definitionTerm |-> NullStr,
       parts |-> <<"As a developer, I want to fix the bug", "fix the error handling">>,
       andParts |-> <<"As a developer, I want to fix the bug", "also fix the error handling">>,
       story |-> [isUserStory |-> TRUE, actor |-> "developer", action |-> "fix the bug and also fix the error handling", benefit |-> NullStr]],
      [text |-> "Fix it as a user, I want more",
       kw |-> <<>>, pat |-> <<>>,
       vague |-> {1}, compound |-> FALSE,
       definitionTerm |-> NullStr,
       parts |-> <<"Fix it as a user, I want more">>,
       andParts |-> <<"Fix it as a user, I want more">>,
       story |-> [isUserStory |-> TRUE, actor |-> "user", action |-> "more", benefit |-> NullStr]],
      [text |-> "What is React and how does it work and what are hooks?",
       kw |-> [code |-> 1], pat |-> <<>>,
       vague |-> {}, compound |-> TRUE,
       definitionTerm |-> "React and how does it work and what are hooks",
       parts |-> <<"What is React and how does it work and what are hooks?">>,
       andParts |-> <<"What is React", "how does it work", "what are hooks?">>,
       story |-> [isUserStory |-> FALSE]]
    }

DetectCall(prompt) ==
    /\ call = Idle
    /\ call' = [fn |-> "detectDomain", prompt |-> prompt,
                result |-> detectDomain(prompt)]
    /\ UNCHANGED <<env, contextPortSingleton, loads, req>>

AmbiguityCall(prompt) ==
    /\ call = Idle
    /\ call' = [fn |-> "calculateAmbiguityScore", prompt |-> prompt,
                result |-> calculateAmbiguityScore(prompt)]
    /\ UNCHANGED <<env, contextPortSingleton, loads, req>>

EnhanceCall(prompt, mode) ==
    /\ call = Idle
    /\ call' = [fn |-> "enhancePrompt", prompt |-> prompt, mode |-> mode,
                result |-> enhancePrompt(prompt, mode)]
    /\ UNCHANGED <<env, contextPortSingleton, loads, req>>

(* The instructions validateContextInstruction and compileIR are called on: *)
(* each of temperatureOverride (in tenths), maxTokensOverride and           *)
(* roleSuffix absent, at a limit, beyond one, or (the numbers) not a number *)
Instructions ==
    LET absent == [k \in {} |-> 0] IN
    { t @@ m @@ x :
        t \in {absent} \cup {[temperatureOverride |-> v] :
                                 v \in {-1, 0, 9, 20, 21, NaN}},
        m \in {absent} \cup {[maxTokensOverride |-> v] :
                                 v \in {-5, 0, 1, 1000, 100000, 100001, NaN}},
        x \in {absent} \cup {[roleSuffix |-> f] :
                                 f \in {TextField("in medical field"),
                                        LongField(250000), LongField(250001)}} }

ValidateContextCall(instr) ==
    /\ call = Idle
    /\ call' = [fn |-> "validateContextInstruction", instr |-> instr,
                result |-> validateContextInstruction(instr)]
    /\ UNCHANGED <<env, contextPortSingleton, loads, req>>

\* compileIR on the IR synthesized for a plain question under an instruction
CompileCall(contextInstr) ==
    /\ call = Idle
    /\ call' = [fn |-> "compileIR", contextInstr |-> contextInstr,
                result |->
                    compileIR(synthesize("", [maxWords |-> 160], contextInstr, <<>>),
                              "Write a story", contextInstr)]
    /\ UNCHANGED <<env, contextPortSingleton, loads, req>>

\* overlays with and without an objectivePrefix, one of them the empty string
PrefixInstructions ==
    {Null,
     [objectivePrefix |-> TextField("For a clinician:")],
     [objectivePrefix |-> TextField("")],
     [roleSuffix |-> TextField("in medical field")]}

\* synthesize on the prompt as enhancePrompt returns it, as handleGenerate calls it
SynthesizeCall(prompt, mode, contextInstr) ==
    /\ call = Idle
    /\ call' = [fn |-> "synthesize",
                rawPrompt |-> enhancePrompt(prompt, mode).enhancedPrompt,
                contextInstr |-> contextInstr,
                result |-> synthesize(enhancePrompt(prompt, mode).enhancedPrompt,
                                      [maxWords |-> 160], contextInstr, <<>>)]
    /\ UNCHANGED <<env, contextPortSingleton, loads, req>>

\* analyze on a request of the given task type and a prompt analysis
AnalyzeCall(taskType, promptAnalysis) ==
    /\ call = Idle
    /\ call' = [fn |-> "analyze", taskType |-> taskType,
                promptAnalysis |-> promptAnalysis,
                result |-> analyze([taskType |-> taskType], promptAnalysis)]
    /\ UNCHANGED <<env, contextPortSingleton, loads, req>>

Return ==
    /\ call # Idle
    /\ call' = Idle
    /\ UNCHANGED <<env, contextPortSingleton, loads, req>>

InitFn ==
    /\ call = Idle
    /\ env = [cfg |-> MockConfig, file |-> UnreadableFile]
    /\ contextPortSingleton = Null
    /\ loads = <<>>
    /\ req = [r \in Requests |-> InitReq]

NextFn ==
    \/ \E text \in ReplyTexts : ValidateCall(text)
    \/ \E capabilities \in Capabilities, targetHint \in Hints :
          RouteCall(capabilities, targetHint)
    \/ \E prompt \in Prompts : DetectCall(prompt)
    \/ \E prompt \in Prompts : AmbiguityCall(prompt)
    \/ \E prompt \in Prompts, mode \in {"rules", "none"} : EnhanceCall(prompt, mode)
    \/ \E taskType \in {"undefined", "qa", "extract", "summarize"},
          promptAnalysis \in [detectedDomain : {NullStr, "academic", "code"},
                              isCompoundQuestion : BOOLEAN,
                              ambiguityScore : 0..10,
                              suggestedExamples : {<<>>}] :
          AnalyzeCall(taskType, promptAnalysis)
    \/ \E contextInstr \in Instructions \cup {Null} : CompileCall(contextInstr)
    \/ \E instr \in Instructions : ValidateContextCall(instr)
    \/ \E prompt \in Prompts, mode \in {"rules", "none"},
          contextInstr \in PrefixInstructions :
          SynthesizeCall(prompt, mode, contextInstr)
    \/ Return

SpecFn == InitFn /\ [][NextFn]_vars

----------------------------------------------------------------------------
(* Properties of validateOrRepair and route (specification SpecFn) *)

ValidateReturned == call.fn = "validateOrRepair"

(* C1: validate is total: for every input text it returns one result with   *)
(* ok = true whose value has a string answer and a sequence-of-strings      *)
(* citations; it never throws and never returns ok = false.                 *)
C1_ValidateTotal ==
    ValidateReturned =>
        /\ ~call.result.threw
        /\ call.result.value.ok
        /\ call.result.value.value.answer \in STRING
        /\ call.result.value.value.citations \in Seq(STRING)

\* a call of validateOrRepair that ended in a TypeError
C1_ValidateThrew ==
    /\ ValidateReturned
    /\ call.result.threw

\* the text parses to an object with a string answer and an array of strings
FullyValid(text) ==
    /\ text.json # NotJson
    /\ text.json.t = "object"
    /\ Has(text.json, "answer") /\ text.json.f["answer"].t = "string"
    /\ IsArrayField(text.json, "citations")
    /\ \A i \in 1..Len(text.json.f["citations"].items) :
          text.json.f["citations"].items[i].t = "string"

(* C2: for every input that parses to an object whose answer is a string    *)
(* and whose citations is an array of strings, validate returns             *)
(* repaired = false and the value passed through: the parsed answer and the *)
(* parsed citations, element for element.                                   *)
C2_FullyValidPassesThrough ==
    (ValidateReturned /\ FullyValid(call.text)) =>
        /\ ~call.result.threw
        /\ ~call.result.value.repaired
        /\ call.result.value.value.answer = call.text.json.f["answer"].s
        /\ call.result.value.value.citations =
              [i \in 1..Len(call.text.json.f["citations"].items) |->
                  call.text.json.f["citations"].items[i].s]

\* a fully valid reply whose citation came back changed, reported unrepaired
C2_CitationReplacedSilently ==
    /\ ValidateReturned /\ FullyValid(call.text)
    /\ ~call.result.threw
    /\ ~call.result.value.repaired
    /\ \E i \in 1..Len(call.text.json.f["citations"].items) :
          call.result.value.value.citations[i]
              # call.text.json.f["citations"].items[i].s

----------------------------------------------------------------------------
(* Properties of the overlay table and the handler (specification Spec) *)

Blocks == env.file.blocks

(* C4: after the overlay table is loaded, every overlay definition that     *)
(* fails validation is excluded from the usable set (its id looks up to     *)
(* none and is not listed), while the load completes and the valid          *)
(* overlays of the file remain available.                                   *)
C4_InvalidOverlaysExcluded ==
    \A l \in 1..Len(loads) :
        loads[l].settled =>
            \A i \in 1..Len(Blocks) :
                IF validateContextInstruction(Blocks[i].instruction) # Null
                THEN /\ getContext(loads[l].port, Blocks[i].id) = Null
                     /\ ~InSeq(Blocks[i].id, listContexts(loads[l].port))
                ELSE ~loads[l].failed =>
                        getContext(loads[l].port, Blocks[i].id) = Blocks[i]

\* a loaded table that serves an overlay whose validation failed
C4_InvalidOverlayServed ==
    \E l \in 1..Len(loads) :
        /\ loads[l].settled
        /\ Len(loads[l].warnings) > 0
        /\ getContext(loads[l].port, loads[l].warnings[1].contextId) # Null
        /\ loads[l].warnings[1].error.kind = "INVALID_TEMPERATURE"

\* the overlay table a request is served from: the injected port, or the file's
TableOf(q) ==
    IF q.ctxPort # Null THEN q.ctxPort ELSE loadContexts(env.file, 0).port

\* the explicit context id of a body, "" when it has none
ExplicitContext(body) ==
    IF body.context = "undefined" THEN "" ELSE Trim(body.context)

\* rawPrompt is missing or empty after trimming
NoPrompt(body) ==
    body.rawPrompt = Undefined \/ Trim(body.rawPrompt.text) = ""

\* the explicit context id is not in the overlay table
UnknownContext(q) ==
    /\ ExplicitContext(q.body) # ""
    /\ getContext(TableOf(q), ExplicitContext(q.body)) = Null

(* C5: a request whose rawPrompt is missing or empty after trimming, or     *)
(* whose explicit context id is not in the overlay table, is answered with  *)
(* a 400 before any pipeline stage runs for it: no stage, no adapter call,  *)
(* no validation, at any time.                                              *)
C5_RejectedBeforeAnyStage ==
    \A r \in Requests :
        (req[r].pc # "idle" /\ (NoPrompt(req[r].body) \/ UnknownContext(req[r]))) =>
            /\ req[r].stages = <<>>
            /\ req[r].adapterCalls = 0
            /\ req[r].adapterResult = Null
            /\ req[r].validationResult = Null
            /\ req[r].pc \in {"awaitContext", "done"}
            /\ req[r].pc = "done" => req[r].response.status = 400

\* an unknown explicit context was looked up in a loaded table and rejected
C5_UnknownContextRejected ==
    \E r \in Requests :
        /\ req[r].pc = "done"
        /\ ~NoPrompt(req[r].body)
        /\ UnknownContext(req[r])
        /\ req[r].ctxPort = Null
        /\ Len(loads) > 0
        /\ Len(TableOf(req[r]).contexts) > 0
        /\ req[r].response.status = 400
        /\ req[r].response.error = "Unknown context"

\* the request names a known explicit context
KnownContext(q) ==
    /\ ~NoPrompt(q.body)
    /\ ExplicitContext(q.body) # ""
    /\ getContext(TableOf(q), ExplicitContext(q.body)) # Null

(* C6: when a request supplies a known explicit context id, that overlay is *)
(* the one synthesize and compile use and no auto-detection occurs: the     *)
(* handler never fetches the overlay of the detected domain, whatever       *)
(* domain the text matches.                                                 *)
C6_ExplicitContextUsed ==
    \A r \in Requests :
        (req[r].pc # "idle" /\ KnownContext(req[r])) =>
            LET q == req[r]
                overlay == getContext(TableOf(q), ExplicitContext(q.body)).instruction
            IN  /\ q.pc # "awaitAutoApply"
                /\ Cardinality({i \in 1..Len(q.awaits) :
                                    q.awaits[i] = "getContextPort"}) <= 1
                /\ InSeq("synthesize", q.stages) =>
                      /\ q.contextInstr = overlay
                      /\ q.effectiveContext = ExplicitContext(q.body)
                      /\ q.ir = synthesize(q.baseEnhancement.enhancedPrompt, q.analysis,
                                           overlay,
                                           q.enhancement.analysis.suggestedExamples)
                      /\ q.compiled # Null =>
                            Returned(q.compiled) =
                                compileIR(q.ir, q.baseEnhancement.enhancedPrompt,
                                          overlay)

\* a prompt detected as one domain, compiled under the explicit overlay of another
C6_DetectedDomainNotApplied ==
    \E r \in Requests :
        /\ req[r].pc # "idle"
        /\ KnownContext(req[r])
        /\ req[r].compiled # Null
        /\ req[r].enhancement.analysis.detectedDomain = "code"
        /\ getContext(TableOf(req[r]), "code") # Null
        /\ ExplicitContext(req[r].body) = "medical"
        /\ req[r].contextInstr = MedicalContext.instruction

(* C7: per request the adapter is invoked at most once; when it returns a   *)
(* typed failure the response carries that error kind (NETWORK_ERROR as     *)
(* 502, CONFIG_MISSING and INVALID_RESPONSE as 500) and validate never runs *)
(* for that request.                                                        *)
C7_AdapterFailureMapped ==
    \A r \in Requests :
        /\ req[r].adapterCalls <= 1
        /\ (req[r].adapterResult # Null /\ ~req[r].adapterResult.ok) =>
              /\ req[r].pc = "done"
              /\ req[r].adapterCalls = 1
              /\ req[r].response.error = req[r].adapterResult.error.kind
              /\ req[r].response.status =
                    (IF req[r].adapterResult.error.kind = "NETWORK_ERROR"
                     THEN 502 ELSE 500)
              /\ ~InSeq("validate", req[r].stages)
              /\ req[r].validationResult = Null

\* an adapter call that failed with NETWORK_ERROR, answered with 502
C7_NetworkErrorAnswered ==
    \E r \in Requests :
        /\ req[r].pc = "done"
        /\ req[r].adapterResult # Null
        /\ ~req[r].adapterResult.ok
        /\ req[r].adapterResult.error.kind = "NETWORK_ERROR"
        /\ req[r].response.status = 502

\* the requests whose await of getContextPort() can resume
Served == {r \in Requests : req[r].pc \in BeforeAdapter /\ Resolved(req[r].promise)}

(* C8: the overlay table is initialized once before serving traffic: under  *)
(* every interleaving the overlay file is loaded exactly once, the load has *)
(* completed before the first request is processed, and every request       *)
(* observes the same table.                                                 *)
C8_LoadedOnceBeforeTraffic ==
    /\ Len(loads) <= 1
    /\ \A r \in Requests :
          req[r].pc # "idle" =>
              /\ Len(loads) = 1
              /\ loads[1].settled
              /\ contextPortSingleton # Null
    /\ \A r1, r2 \in Served : PortOf(req[r1].promise) = PortOf(req[r2].promise)

\* two requests each loaded the file and resume with different tables
C8_LoadedTwice ==
    /\ Len(loads) >= 2
    /\ \E r1, r2 \in Served :
          /\ req[r1].promise.state = "loading"
          /\ req[r2].promise.state = "loading"
          /\ PortOf(req[r1].promise).instance # PortOf(req[r2].promise).instance
          /\ contextPortSingleton = PortOf(req[r2].promise)

(* The response to call c were it handled alone, with this configuration    *)
(* and overlay file and the adapter outcome it met (Null: it met none, and  *)
(* a request that calls the adapter has no response without one).           *)
Alone(c, outcome) ==
    LET table == IF c.ctxPort # Null THEN c.ctxPort
                 ELSE loadContexts(env.file, 0).port
        a0 == Enter(c)
        a1 == IF a0.pc = "awaitContext" THEN LookupContext(a0, table) ELSE a0
        a2 == IF a1.pc = "awaitAutoApply" THEN AutoApply(a1, table) ELSE a1
        a3 == IF a2.pc = "awaitAdapter" /\ outcome # Null
              THEN Finish(a2, outcome) ELSE a2
    IN  a3.response

(* C9: concurrent requests proceed independently: under any interleaving,   *)
(* each request's response equals the response it would get if it ran alone *)
(* with the same configuration and overlay file.                            *)
C9_ResponseAsAlone ==
    \A r \in Requests :
        req[r].pc = "done" =>
            req[r].response =
                Alone([body |-> req[r].body, ctxPort |-> req[r].ctxPort],
                      req[r].adapterResult)

(* two requests with an explicit context, served by contextConfig.ts and    *)
(* answered, for which the file was loaded once: one of them was answered   *)
(* from the table the other's load had cached                               *)
C9_AnsweredFromSharedTable ==
    \E r1, r2 \in Requests :
        /\ r1 # r2
        /\ Len(loads) = 1
        /\ \A r \in {r1, r2} :
              /\ req[r].pc = "done"
              /\ req[r].ctxPort = Null
              /\ req[r].request # Null
              /\ req[r].request.context # "undefined"
              /\ req[r].response.status = 200

(* C10: the only suspension point in the lifecycle of a request is the      *)
(* adapter call: the handler awaits at no other place, so every stage       *)
(* before the adapter call runs atomically with respect to other requests.  *)
C10_OnlyAdapterSuspends ==
    \A r \in Requests :
        /\ \A i \in 1..Len(req[r].awaits) : req[r].awaits[i] = "adapter"
        /\ req[r].pc \notin BeforeAdapter

(* a request still suspended before its adapter call, waiting for the load  *)
(* it started, while a request that entered after it (it started the        *)
(* second load) has got as far as its adapter call                          *)
C10_InterleavedBeforeAdapter ==
    \E r1, r2 \in Requests :
        /\ req[r1].pc \in BeforeAdapter
        /\ req[r1].promise.state = "loading" /\ req[r1].promise.load = 1
        /\ Len(loads) >= 2
        /\ req[r2].pc = "awaitAdapter"
        /\ req[r2].ctxPort = Null
        /\ req[r2].awaits = <<"getContextPort", "adapter">>
        /\ \A r \in Requests \ {r1, r2} : req[r].pc = "idle"

----------------------------------------------------------------------------
(* Properties of validateOrRepair, case by case (specification SpecFn) *)

\* a is raw without its leading and trailing whitespace
IsTrimOf(a, raw) ==
    /\ \E i \in 1..(Len(raw) + 1) :
          /\ \A k \in 1..(i - 1) : SubSeq(raw, k, k) \in Whitespace
          /\ \A k \in (i + Len(a))..Len(raw) : SubSeq(raw, k, k) \in Whitespace
          /\ i + Len(a) - 1 <= Len(raw)
          /\ SubSeq(raw, i, i + Len(a) - 1) = a
    /\ Len(a) > 0 => /\ SubSeq(a, 1, 1) \notin Whitespace
                     /\ SubSeq(a, Len(a), Len(a)) \notin Whitespace

\* the text parses, to a value of one of these kinds
ParsesTo(text, kinds) == text.json # NotJson /\ text.json.t \in kinds

(* C11: for every input that parses to a value that is not an object (a     *)
(* bare number, string, boolean, null or an array), validate returns        *)
(* repaired = true with originalError kind NOT_AN_OBJECT and value          *)
(* {answer: stringify(parsedValue), citations: []}.                         *)
C11_NonObjectIsNotAnObject ==
    (ValidateReturned
        /\ ParsesTo(call.text, {"null", "boolean", "number", "string", "array"})) =>
        /\ ~call.result.threw
        /\ call.result.value.repaired
        /\ call.result.value.originalError.kind = "NOT_AN_OBJECT"
        /\ call.result.value.value =
              [answer |-> Stringify(call.text.json), citations |-> <<>>]

(* C11, as the code has it: a bare number, string, boolean or null is       *)
(* repaired with kind INVALID_TYPES, the one issue "Expected object, got    *)
(* <typeof>", and value {answer: stringify(parsedValue), citations: []}; an *)
(* array is handled as an object that lacks both fields: kind               *)
(* MISSING_FIELDS naming answer and citations, answer the trimmed raw text, *)
(* citations [].                                                            *)
C11_NonObjectRepaired ==
    /\ (ValidateReturned
           /\ ParsesTo(call.text, {"null", "boolean", "number", "string"})) =>
          /\ ~call.result.threw
          /\ call.result.value.ok
          /\ call.result.value.repaired
          /\ call.result.value.originalError.kind = "INVALID_TYPES"
          /\ call.result.value.originalError.issues =
                <<"Expected object, got "
                    \o (CASE call.text.json.t = "null"    -> "object"
                          [] call.text.json.t = "boolean" -> "boolean"
                          [] call.text.json.t = "number"  -> "number"
                          [] call.text.json.t = "string"  -> "string")>>
          /\ call.result.value.value =
                [answer |-> Stringify(call.text.json), citations |-> <<>>]
    /\ (ValidateReturned /\ ParsesTo(call.text, {"array"})) =>
          /\ ~call.result.threw
          /\ call.result.value.ok
          /\ call.result.value.repaired
          /\ call.result.value.originalError.kind = "MISSING_FIELDS"
          /\ call.result.value.originalError.missingFields = <<"answer", "citations">>
          /\ IsTrimOf(call.result.value.value.answer, call.text.raw)
          /\ call.result.value.value.citations = <<>>

(* a bare null reported as "got object", and an array whose answer is its  *)
(* raw text, not its serialisation: the two calls are told apart by text    *)
C11_ArrayKeepsRawText ==
    /\ ValidateReturned
    /\ call.text = SpacedArrayText
    /\ call.result.value.originalError.kind = "MISSING_FIELDS"
    /\ call.result.value.value.answer = "[ 1 ]"
    /\ call.result.value.value.answer # Stringify(call.text.json)

\* the object lacks answer, citations or both
LacksField(text) ==
    /\ ParsesTo(text, {"object"})
    /\ {"answer", "citations"} \ DOMAIN text.json.f # {}

(* C12: for every input that parses to an object lacking answer and/or      *)
(* citations, validate returns repaired = true with kind MISSING_FIELDS     *)
(* listing exactly the missing field names; the repaired answer is the      *)
(* object's answer if present (a string as it is, any other value as a      *)
(* string) and otherwise the trimmed raw text; the repaired citations come  *)
(* from the object's citations array if it is an array (one entry per       *)
(* element, a parseable URL kept) and are [] otherwise.                     *)
C12_MissingFieldsRepaired ==
    (ValidateReturned /\ LacksField(call.text)) =>
        LET f == call.text.json.f IN
        /\ ~call.result.threw
        /\ call.result.value.repaired
        /\ call.result.value.originalError.kind = "MISSING_FIELDS"
        /\ call.result.value.originalError.missingFields =
              SelectIn(<<"answer", "citations">>, {"answer", "citations"} \ DOMAIN f)
        /\ IF "answer" \in DOMAIN f
           THEN /\ call.result.value.value.answer \in STRING
                /\ f["answer"].t = "string" =>
                      call.result.value.value.answer = f["answer"].s
           ELSE IsTrimOf(call.result.value.value.answer, call.text.raw)
        /\ IF "citations" \in DOMAIN f /\ f["citations"].t = "array"
           THEN /\ Len(call.result.value.value.citations) = Len(f["citations"].items)
                /\ \A i \in 1..Len(f["citations"].items) :
                      (f["citations"].items[i].t = "string"
                          /\ UrlParses(f["citations"].items[i].s)) =>
                          call.result.value.value.citations[i] = f["citations"].items[i].s
           ELSE call.result.value.value.citations = <<>>

\* an object with an answer and no citations, for which validateOrRepair threw
C12_MissingFieldsThrew ==
    /\ ValidateReturned
    /\ LacksField(call.text)
    /\ "answer" \in DOMAIN call.text.json.f
    /\ call.result.threw

(* C13: for every input text that does not parse as JSON, validate returns  *)
(* repaired = true with originalError kind INVALID_JSON and value           *)
(* {answer: the trimmed raw text, citations: []}.                           *)
C13_InvalidJsonWrapped ==
    (ValidateReturned /\ call.text.json = NotJson) =>
        /\ ~call.result.threw
        /\ call.result.value.ok
        /\ call.result.value.repaired
        /\ call.result.value.originalError.kind = "INVALID_JSON"
        /\ IsTrimOf(call.result.value.value.answer, call.text.raw)
        /\ call.result.value.value.citations = <<>>

\* a text with whitespace around it came back trimmed as the answer
C13_PlainTextTrimmed ==
    /\ ValidateReturned
    /\ call.text.json = NotJson
    /\ call.text.raw = " The answer is 42.\n"
    /\ call.result.value.value.answer = "The answer is 42."
    /\ call.result.value.originalError.kind = "INVALID_JSON"

\* the object has both fields and a non-string answer or citation entry
WrongTypes(text) ==
    /\ ParsesTo(text, {"object"})
    /\ {"answer", "citations"} \subseteq DOMAIN text.json.f
    /\ \/ text.json.f["answer"].t # "string"
       \/ /\ text.json.f["citations"].t = "array"
          /\ \E i \in 1..Len(text.json.f["citations"].items) :
                text.json.f["citations"].items[i].t # "string"

\* the sequence has an element that starts with the prefix
HasIssue(issues, prefix) ==
    \E i \in 1..Len(issues) :
        /\ Len(issues[i]) >= Len(prefix)
        /\ SubSeq(issues[i], 1, Len(prefix)) = prefix

(* C14: in the value validate returns for any input, every citation is      *)
(* either a parseable URL or the literal "unknown"; when the object has     *)
(* both fields but a non-string answer or a non-string citation entry, the  *)
(* result is repaired = true with kind INVALID_TYPES and an issue recorded  *)
(* for each offending entry.                                                *)
C14_CitationsNormalized ==
    /\ (ValidateReturned /\ ~call.result.threw) =>
          \A i \in 1..Len(call.result.value.value.citations) :
              \/ call.result.value.value.citations[i] = "unknown"
              \/ UrlParses(call.result.value.value.citations[i])
    /\ (ValidateReturned /\ WrongTypes(call.text)) =>
          LET f == call.text.json.f IN
          /\ ~call.result.threw
          /\ call.result.value.repaired
          /\ call.result.value.originalError.kind = "INVALID_TYPES"
          /\ f["answer"].t # "string" =>
                HasIssue(call.result.value.originalError.issues, "answer was ")
          /\ f["citations"].t = "array" =>
                \A i \in 1..Len(f["citations"].items) :
                    f["citations"].items[i].t # "string" =>
                        HasIssue(call.result.value.originalError.issues,
                                 "citation[" \o NumToString(i - 1) \o "] was ")

\* both fields present, a citation entry that is an object: the call threw
C14_WrongTypesThrew ==
    /\ ValidateReturned
    /\ WrongTypes(call.text)
    /\ call.text.json.f["answer"].t = "string"
    /\ call.result.threw

----------------------------------------------------------------------------
(* Properties of the auto-applied context (specification Spec) *)

\* the request has a prompt, no explicit context id, and its IR has been built
Synthesized(q) ==
    /\ q.pc # "idle"
    /\ ~NoPrompt(q.body)
    /\ ExplicitContext(q.body) = ""
    /\ InSeq("synthesize", q.stages)

\* the overlay of the detected domain in the request's table, Null when none
DetectedOverlay(q) ==
    IF q.enhancement.analysis.detectedDomain = NullStr THEN Null
    ELSE getContext(TableOf(q), q.enhancement.analysis.detectedDomain)

(* C15: when a request has no explicit context id, the overlay applied is   *)
(* the overlay of the detected domain if that id is in the overlay table;   *)
(* if neither an explicit id nor a detected domain resolves, no overlay is  *)
(* applied and the IR fields and decoding parameters take their defaults:   *)
(* role "precise expert", the three base constraints, the two base styles,  *)
(* the examples suggested by the analysis, an objective with no prefix,     *)
(* temperature 1 (10 tenths) and maxTokens 600.                             *)
C15_DetectedOverlayOrDefaults ==
    \A r \in Requests :
        Synthesized(req[r]) =>
            LET q == req[r]
                detectedCtx == DetectedOverlay(q)
            IN  IF detectedCtx # Null
                THEN /\ q.contextInstr = detectedCtx.instruction
                     /\ q.effectiveContext = detectedCtx.id
                     /\ detectedCtx.id = q.enhancement.analysis.detectedDomain
                ELSE /\ q.contextInstr = Null
                     /\ q.effectiveContext = "undefined"
                     /\ q.ir.role = "precise expert"
                     /\ Len(q.ir.constraints) = 3
                     /\ SubSeq(q.ir.constraints, 1, 2) =
                           <<"json-only", "cite-or-say-unknown">>
                     /\ q.ir.constraints[3] =
                           NumToString(q.analysis.maxWords - 40) \o "-"
                               \o NumToString(q.analysis.maxWords) \o "-words"
                     /\ q.ir.style = <<"succinct", "use table only if clearly useful">>
                     /\ q.ir.examples = q.enhancement.analysis.suggestedExamples
                     /\ SubSeq(q.ir.objective, 1, 7) = "Answer "
                     /\ q.compiled # Null
                     /\ q.compiled.decoding = [temperature |-> 10, maxTokens |-> 600]

(* one request compiled under the overlay of its detected domain, which it  *)
(* did not name, and one compiled with the defaults because the domain      *)
(* detected in its text has no overlay in the table                         *)
C15_AutoAppliedAndDefaulted ==
    \E r1, r2 \in Requests :
        /\ Synthesized(req[r1]) /\ Synthesized(req[r2])
        /\ DetectedOverlay(req[r1]) # Null
        /\ req[r1].compiled # Null
        /\ req[r1].ir.role # "precise expert"
        /\ req[r2].enhancement.analysis.detectedDomain # NullStr
        /\ DetectedOverlay(req[r2]) = Null
        /\ req[r2].compiled # Null
        /\ req[r2].compiled.decoding = [temperature |-> 10, maxTokens |-> 600]

----------------------------------------------------------------------------
(* Properties of the prompt analysis and enhancement (specification SpecFn) *)

\* the entries of the pattern table that qualify for a prompt, by position
Qualifying(prompt) ==
    {i \in 1..Len(DOMAIN_PATTERNS) :
        \/ Count(prompt.kw, DOMAIN_PATTERNS[i].domain) >= 2
        \/ Count(prompt.pat, DOMAIN_PATTERNS[i].domain) >= 1}

(* score(i) >= score(j), the score of an entry being                        *)
(* (keywordMatches + 2 * patternMatches) / weight                           *)
ScoreAtLeast(prompt, i, j) ==
    (Count(prompt.kw, DOMAIN_PATTERNS[i].domain)
        + 2 * Count(prompt.pat, DOMAIN_PATTERNS[i].domain)) * DOMAIN_PATTERNS[j].weight2
    >= (Count(prompt.kw, DOMAIN_PATTERNS[j].domain)
        + 2 * Count(prompt.pat, DOMAIN_PATTERNS[j].domain)) * DOMAIN_PATTERNS[i].weight2

\* the qualifying entries with the best score
Best(prompt) ==
    {i \in Qualifying(prompt) : \A j \in Qualifying(prompt) : ScoreAtLeast(prompt, i, j)}

C17_AmbiguityScoreClamped ==
    call.fn = "calculateAmbiguityScore" =>
        LET total == SumScores(call.prompt.vague)
                        + (IF Len(call.prompt.text) < 20 THEN 3
                           ELSE IF Len(call.prompt.text) < 50 THEN 1 ELSE 0)
        IN  /\ call.result \in 0..10
            /\ total <= 10 => call.result = total
            /\ total > 10 => call.result = 10

\* a short text that matches a vague pattern: the sum exceeds 1 and is capped
C17_SumCapped ==
    /\ call.fn = "calculateAmbiguityScore"
    /\ call.prompt.vague # {}
    /\ Len(call.prompt.text) < 20
    /\ SumScores(call.prompt.vague) + 3 > 10
    /\ call.result = 10

(* C18: for every text, enhance with mode "none" returns enhancedPrompt     *)
(* equal to the original text, an empty enhancementsApplied list, and the   *)
(* same analysis that is computed for that text in rules mode.              *)
C18_ModeNoneKeepsText ==
    (call.fn = "enhancePrompt" /\ call.mode = "none") =>
        /\ call.result.originalPrompt = call.prompt.text
        /\ call.result.enhancedPrompt = call.prompt.text
        /\ call.result.enhancementsApplied = <<>>
        /\ call.result.analysis = enhancePrompt(call.prompt, "rules").analysis

\* mode "none" on a text that rules mode rewrites and whose domain is detected
C18_NoneOnRewrittenText ==
    /\ call.fn = "enhancePrompt" /\ call.mode = "none"
    /\ call.result.enhancedPrompt = call.prompt.text
    /\ enhancePrompt(call.prompt, "rules").enhancedPrompt # call.prompt.text
    /\ call.result.analysis.detectedDomain # NullStr
    /\ call.result.analysis.ambiguityScore > 0

\* the last element of a sequence is x
LastIs(xs, x) == Len(xs) > 0 /\ xs[Len(xs)] = x

(* C19: whenever the raw text has the user-story shape ("As a ..., I want   *)
(* ..."), rules-mode enhancement returns as enhancedPrompt the user-story   *)
(* template derived from the original raw text, overwriting whatever steps  *)
(* 1-3 produced, and user_story_structured is the last tag.                 *)
C19_UserStoryOverwrites ==
    (call.fn = "enhancePrompt" /\ call.mode = "rules"
        /\ call.prompt.story.isUserStory) =>
        /\ call.result.enhancedPrompt =
              Join(<<"Generate a comprehensive specification for this user story:", "">>
                   \o (IF Captured(call.prompt.story.actor)
                       THEN <<"**Actor**: " \o call.prompt.story.actor>> ELSE <<>>)
                   \o (IF Captured(call.prompt.story.action)
                       THEN <<"**Action**: " \o call.prompt.story.action>> ELSE <<>>)
                   \o (IF Captured(call.prompt.story.benefit)
                       THEN <<"**Benefit**: " \o call.prompt.story.benefit>> ELSE <<>>)
                   \o <<"", "**Original**: " \o call.prompt.text, "",
                        "Include: API contracts, data models, acceptance criteria, edge cases, and test scenarios.">>,
                   "\n")
        /\ LastIs(call.result.enhancementsApplied, "user_story_structured")

(* a user story that steps 1 and 2 had rewritten (their tags are recorded)  *)
(* comes back as the template over the raw text                             *)
C19_RewrittenStoryOverwritten ==
    /\ call.fn = "enhancePrompt" /\ call.mode = "rules"
    /\ call.prompt.story.isUserStory
    /\ InSeq("clarity_improvement", call.result.enhancementsApplied)
    /\ LastIs(call.result.enhancementsApplied, "user_story_structured")
    /\ Includes(call.result.enhancedPrompt, "**Original**: " \o call.prompt.text \o "\n")
    /\ ~Includes(call.result.enhancedPrompt, "[Note:")

(* C20: in rules mode, a text whose ambiguity score is at least 0.5 and     *)
(* that matches the dangling-reference pattern (begins with fix / explain / *)
(* help with followed by it / this / that, e.g. "Fix it") gets the note     *)
(* asking what "it/this/that" refers to appended, and the tag               *)
(* clarity_improvement is recorded.                                         *)
C20_DanglingReferenceNoted ==
    (call.fn = "enhancePrompt" /\ call.mode = "rules"
        /\ call.result.analysis.ambiguityScore >= 5
        /\ DanglingReference(call.prompt.text)) =>
        /\ Includes(call.result.enhancedPrompt,
                    call.prompt.text
                        \o "\n\n[Note: Please specify what \"it/this/that\" refers to for a targeted response]")
        /\ InSeq("clarity_improvement", call.result.enhancementsApplied)

\* "Fix it" comes back with the note that asks for more context
C20_FixItGetsGenericNote ==
    /\ call.fn = "enhancePrompt" /\ call.mode = "rules"
    /\ call.prompt.text = "Fix it"
    /\ call.result.analysis.ambiguityScore >= 5
    /\ DanglingReference(call.prompt.text)
    /\ call.result.enhancedPrompt =
          "Fix it\n\n[Note: Please provide more context for a better response]"
    /\ InSeq("clarity_improvement", call.result.enhancementsApplied)

----------------------------------------------------------------------------
(* Properties of the response metadata (specification Spec) *)

\* request r was answered with a success response
Succeeded(r) == req[r].pc = "done" /\ req[r].response.status = 200

(* C21: in a successful response meta.enhancement is present only if the    *)
(* enhancer applied enhancements to the prompt (its enhancementsApplied is  *)
(* not empty); for a request with enhance = "none", or whose prompt         *)
(* triggers no enhancement step, the field is absent, in every              *)
(* configuration including mock mode.                                       *)
C21_EnhancementOnlyIfApplied ==
    \A r \in Requests :
        Succeeded(r) =>
            ("enhancement" \in DOMAIN req[r].response.meta
                <=> Len(req[r].baseEnhancement.enhancementsApplied) > 0)

(* in mock mode a request with enhance = "none" is answered with            *)
(* meta.enhancement, whose only tag is the one of the display wrapper       *)
C21_NoneAnsweredWithEnhancement ==
    \E r \in Requests :
        /\ Succeeded(r)
        /\ env.cfg.isMockMode
        /\ req[r].request.enhance = "none"
        /\ req[r].baseEnhancement.enhancementsApplied = <<>>
        /\ "enhancement" \in DOMAIN req[r].response.meta
        /\ req[r].response.meta.enhancement.enhancementsApplied = <<"display_formatted">>

----------------------------------------------------------------------------
(* Properties of analyze (specification SpecFn) *)

(* C22: for every task type, ambiguity score in [0,1] (here in tenths) and  *)
(* compound flag, analyze yields needsJson = true, needsCitations = true    *)
(* for summarize and qa/default and false for extract unless the detected   *)
(* domain is academic, and maxWords = round(base * (1 + 0.3 * score + (0.5  *)
(* if compound else 0))) with base 180 / 120 / 160 for summarize / extract  *)
(* / qa-default; hence base <= maxWords <= round(1.8 * base).               *)
C22_AnalyzeReport ==
    call.fn = "analyze" =>
        LET base == CASE call.taskType = "summarize" -> 180
                      [] call.taskType = "extract" -> 120
                      [] OTHER -> 160
            \* 100 * base * (1 + 0.3 * score + 0.5 * compound)
            exact == base * (100 + 3 * call.promptAnalysis.ambiguityScore
                                + (IF call.promptAnalysis.isCompoundQuestion
                                   THEN 50 ELSE 0))
        IN  /\ call.result.needsJson
            /\ call.result.needsCitations
                  <=> \/ call.taskType # "extract"
                      \/ call.promptAnalysis.detectedDomain = "academic"
            \* the nearest integer, a half rounded up
            /\ 100 * call.result.maxWords - 50 <= exact
            /\ exact < 100 * call.result.maxWords + 50
            \* 1.8 * base is an integer for each of the three bases
            /\ base <= call.result.maxWords
            /\ 100 * call.result.maxWords <= 180 * base

(* an extract request about an academic text needs citations, and its word  *)
(* budget 120 * 1.24 = 148.8 is rounded up to 149                           *)
C22_ExtractAcademicRoundedUp ==
    /\ call.fn = "analyze"
    /\ call.taskType = "extract"
    /\ call.promptAnalysis.detectedDomain = "academic"
    /\ call.promptAnalysis.ambiguityScore = 8
    /\ ~call.promptAnalysis.isCompoundQuestion
    /\ call.result.needsCitations
    /\ call.result.maxWords = 149

----------------------------------------------------------------------------
(* Properties of compileIR (specification SpecFn) *)

(* the overlay invariant: temperatureOverride in [0,2] (in tenths),         *)
(* maxTokensOverride in (0, 100000], every text field of at most 250,000    *)
(* characters                                                               *)
TemperatureInRange(instr) ==
    "temperatureOverride" \in DOMAIN instr => instr.temperatureOverride \in 0..20

MaxTokensInRange(instr) ==
    "maxTokensOverride" \in DOMAIN instr => instr.maxTokensOverride \in 1..100000

TextsInRange(instr) ==
    "roleSuffix" \in DOMAIN instr => instr.roleSuffix.length <= 250000

OverlayInvariant(instr) ==
    TemperatureInRange(instr) /\ MaxTokensInRange(instr) /\ TextsInRange(instr)

(* C23: for every IR and every overlay satisfying the overlay invariant (or *)
(* no overlay), compile yields decoding.temperature equal to the overlay's  *)
(* temperatureOverride when present (including the value 0) and 1           *)
(* otherwise, and decoding.maxTokens equal to the overlay's                 *)
(* maxTokensOverride when present and 600 otherwise.                        *)
C23_DecodingFromOverlay ==
    (/\ call.fn = "compileIR"
     /\ \/ call.contextInstr = Null
        \/ OverlayInvariant(call.contextInstr)) =>
        /\ ~call.result.threw
        /\ call.result.value.decoding.temperature =
              IF call.contextInstr # Null
                 /\ "temperatureOverride" \in DOMAIN call.contextInstr
              THEN call.contextInstr.temperatureOverride ELSE 10
        /\ call.result.value.decoding.maxTokens =
              IF call.contextInstr # Null
                 /\ "maxTokensOverride" \in DOMAIN call.contextInstr
              THEN call.contextInstr.maxTokensOverride ELSE 600

\* an overlay whose temperatureOverride is 0 and that has no maxTokensOverride
C23_ZeroTemperatureKept ==
    /\ call.fn = "compileIR"
    /\ call.contextInstr # Null
    /\ DOMAIN call.contextInstr = {"temperatureOverride"}
    /\ call.contextInstr.temperatureOverride = 0
    /\ ~call.result.threw
    /\ call.result.value.decoding = [temperature |-> 0, maxTokens |-> 600]

----------------------------------------------------------------------------
(* Properties of validateContextInstruction (specification SpecFn) *)

(* C28: validateContextInstruction accepts an overlay (returns no error)    *)
(* exactly when every present field satisfies the overlay invariant;        *)
(* otherwise it reports one error, the first that applies in the order      *)
(* INVALID_TEMPERATURE, INVALID_MAX_TOKENS, TEXT_TOO_LONG.                  *)
C28_AcceptsExactlyValidOverlays ==
    call.fn = "validateContextInstruction" =>
        call.result =
            IF ~TemperatureInRange(call.instr) THEN [kind |-> "INVALID_TEMPERATURE"]
            ELSE IF ~MaxTokensInRange(call.instr) THEN [kind |-> "INVALID_MAX_TOKENS"]
            ELSE IF ~TextsInRange(call.instr) THEN [kind |-> "TEXT_TOO_LONG"]
            ELSE Null

\* an overlay whose temperatureOverride is not a number is accepted
C28_NaNAccepted ==
    /\ call.fn = "validateContextInstruction"
    /\ "temperatureOverride" \in DOMAIN call.instr
    /\ call.instr.temperatureOverride = NaN
    /\ call.result = Null

----------------------------------------------------------------------------
(* Properties of the enhancement steps (specification SpecFn) *)

RulesReturned == call.fn = "enhancePrompt" /\ call.mode = "rules"

\* the tags of the steps in the order of the steps; NullStr: no domain detected
TagOrder(domain) ==
    <<"structured_compound_question", "clarity_improvement",
      "definition_question_expanded">>
    \o (IF domain = NullStr THEN <<>>
        ELSE <<"domain_detected:" \o domain, "examples_suggested">>)
    \o <<"user_story_structured">>

(* C24: in rules mode the steps are applied in a fixed order and            *)
(* enhancementsApplied records them in that order: for every input the tag  *)
(* list is a duplicate-free subsequence of [structured_compound_question,   *)
(* clarity_improvement, definition_question_expanded, domain_detected:<id>, *)
(* examples_suggested, user_story_structured], where <id> is the analysis's *)
(* detected domain, and examples_suggested appears only together with       *)
(* domain_detected.                                                         *)
C24_TagsInStepOrder ==
    RulesReturned =>
        LET tags == call.result.enhancementsApplied
            order == TagOrder(call.result.analysis.detectedDomain)
        IN  /\ tags = SelectIn(order, {tags[i] : i \in 1..Len(tags)})
            /\ InSeq("examples_suggested", tags)
                  => InSeq("domain_detected:" \o call.result.analysis.detectedDomain,
                           tags)

\* a prompt that four steps tag, the tags in the order of the steps
C24_FourStepsTagged ==
    /\ RulesReturned
    /\ call.result.enhancementsApplied =
          <<"structured_compound_question", "domain_detected:code",
            "examples_suggested", "user_story_structured">>

(***************************************************************************)
(* C25: the definition-question expansion.                                 *)
(***************************************************************************)

\* the returned enhancementsApplied list holds the tag
Tagged(tag) ==
    \E i \in 1..Len(call.result.enhancementsApplied) :
        call.result.enhancementsApplied[i] = tag

\* the text enhancePrompt hands to its third step
WorkingText == ClarityStep(call.result.analysis,
                           CompoundStep(call.prompt, call.result.analysis)).enhancedPrompt

(* The working text is a definition question free of the given markers: a  *)
(* domain was detected, the text is not compound, it reads                 *)
(* "what is <term>?" with a term of 1 to 80 characters, and it holds none  *)
(* of the markers and no line break.  A working text that differs from the *)
(* raw prompt carries an appended note or a numbered list, hence a line    *)
(* break.                                                                  *)
DefinitionQuestion(markers) ==
    /\ call.result.analysis.detectedDomain # NullStr
    /\ ~call.result.analysis.isCompoundQuestion
    /\ WorkingText = call.prompt.text
    /\ call.prompt.definitionTerm # NullStr
    /\ Trim(call.prompt.definitionTerm) # ""
    /\ Len(Trim(call.prompt.definitionTerm)) <= 80
    /\ \A m \in markers \cup {"\n"} : ~Includes(ToLowerCase(Trim(WorkingText)), m)

\* the third step expanded the working text and recorded its tag
DefinitionExpanded ==
    /\ Tagged("definition_question_expanded")
    /\ ~call.prompt.story.isUserStory =>
          /\ Len(call.result.enhancedPrompt) > Len(Trim(WorkingText))
          /\ SubSeq(call.result.enhancedPrompt, 1, Len(Trim(WorkingText)))
                = Trim(WorkingText)

\* the third step left the working text alone and recorded no tag
DefinitionUntouched ==
    /\ ~Tagged("definition_question_expanded")
    /\ ~call.prompt.story.isUserStory => call.result.enhancedPrompt = WorkingText

AcceptedSplit ==
    IF Len(call.prompt.parts) > 1 THEN call.prompt.parts
    ELSE IF /\ Len(call.prompt.andParts) > 1
            /\ \A i \in 1..Len(call.prompt.andParts) :
                   Len(call.prompt.andParts[i]) > 10
    THEN call.prompt.andParts
    ELSE <<>>

\* the characters of the list before its i-th line
RECURSIVE LineStart(_, _)
LineStart(parts, i) ==
    IF i = 1 THEN 0
    ELSE LineStart(parts, i - 1) + Len(NumToString(i - 1)) + 2 + Len(parts[i - 1]) + 1

\* text starts with the parts as lines "1. <part>", "2. <part>", ... and nothing else on them
StartsWithList(text, parts) ==
    /\ Len(text) >= LineStart(parts, Len(parts) + 1) - 1
    /\ \A i \in 1..Len(parts) :
          /\ SubSeq(text, LineStart(parts, i) + 1, LineStart(parts, i + 1) - 1)
                = NumToString(i) \o ". " \o parts[i]
          /\ i < Len(parts) =>
                SubSeq(text, LineStart(parts, i + 1), LineStart(parts, i + 1)) = "\n"

(* C26: for a prompt detected as compound, enhancePrompt in rules mode     *)
(* records structured_compound_question and turns the text into the        *)
(* numbered list of the accepted split (connector pieces, else "and"       *)
(* pieces all longer than 10 characters), to which only a clarity note may *)
(* be appended; with no accepted split the tag is not recorded and the     *)
(* step leaves the text as it is.  A user story replaces the text later.   *)
C26_CompoundStructured ==
    RulesReturned /\ call.result.analysis.isCompoundQuestion =>
        IF AcceptedSplit # <<>>
        THEN /\ Tagged("structured_compound_question")
             /\ ~call.prompt.story.isUserStory =>
                   /\ StartsWithList(call.result.enhancedPrompt, AcceptedSplit)
                   /\ ~Tagged("clarity_improvement") =>
                         Len(call.result.enhancedPrompt)
                           = LineStart(AcceptedSplit, Len(AcceptedSplit) + 1) - 1
        ELSE /\ ~Tagged("structured_compound_question")
             /\ CompoundStep(call.prompt, call.result.analysis).enhancedPrompt
                   = call.prompt.text
             /\ SubSeq(call.result.enhancedPrompt, 1, Len(call.prompt.text))
                   = call.prompt.text

\* a split on bare "and" into three parts, each longer than 10 characters, is numbered
C26_AndSplitNumbered ==
    /\ RulesReturned /\ call.result.analysis.isCompoundQuestion
    /\ Len(call.prompt.parts) <= 1
    /\ Len(AcceptedSplit) = 3
    /\ Tagged("structured_compound_question")
    /\ StartsWithList(call.result.enhancedPrompt, AcceptedSplit)

\* a compound prompt whose second "and" piece has 10 characters is left alone
C26_ShortPartRejected ==
    /\ RulesReturned /\ call.result.analysis.isCompoundQuestion
    /\ Len(call.prompt.andParts) > 1 /\ AcceptedSplit = <<>>
    /\ ~Tagged("structured_compound_question")

(***************************************************************************)
(* C27: the objective of the IR.                                           *)
(***************************************************************************)

SynthesizeReturned == call.fn = "synthesize"

\* the topic the three patterns give, tried in the order what is/are, explain, how to/does
OrderedTopic(text) ==
    IF MatchGroup(text, 1..Len(text), WhatPattern) # NullStr
    THEN MatchGroup(text, 1..Len(text), WhatPattern)
    ELSE IF MatchGroup(text, 1..Len(text), ExplainPattern) # NullStr
    THEN MatchGroup(text, 1..Len(text), ExplainPattern)
    ELSE MatchGroup(text, 1..Len(text), HowPattern)

\* the returned objective is the base sentence for the topic, after the overlay's prefix if any
ObjectiveFor(topic) ==
    call.result.objective =
        (IF HasText(call.contextInstr, "objectivePrefix")
         THEN call.contextInstr.objectivePrefix.text \o " " ELSE "")
        \o (IF topic # NullStr
            THEN "Answer about " \o topic \o " accurately and concisely."
            ELSE "Answer the user's request accurately and concisely.")

(* C27: the objective names a topic only for a text of at least 5 words,   *)
(* the topic being that of the first of the patterns what is/are, explain, *)
(* how to/does that matches; a text of fewer than 5 words gets the generic *)
(* sentence; the overlay's objectivePrefix, if any, comes first.           *)
C27_TopicOnlyForFiveWords ==
    SynthesizeReturned =>
        ObjectiveFor(IF WordCount(call.rawPrompt) >= 5
                     THEN OrderedTopic(call.rawPrompt) ELSE NullStr)

\* "What is Docker?", three words, gets an objective naming Docker
C27_ShortTextNamesTopic ==
    /\ SynthesizeReturned
    /\ WordCount(call.rawPrompt) < 5
    /\ call.contextInstr = Null
    /\ call.result.objective = "Answer about Docker accurately and concisely."

\* the objective names the ordered topic whatever the number of words
C27_TopicWhateverTheLength ==
    SynthesizeReturned => ObjectiveFor(OrderedTopic(call.rawPrompt))

(***************************************************************************)
(* C29: decoding parameters of a successful response.                      *)
(***************************************************************************)

\* the overlay asks for a temperature outside [0,2] or for maxTokens that are not positive
OutOfRangeOverlay(instr) ==
    /\ instr # Null
    /\ \/ /\ "temperatureOverride" \in DOMAIN instr
          /\ instr.temperatureOverride \notin 0..20
       \/ /\ "maxTokensOverride" \in DOMAIN instr
          /\ ~(instr.maxTokensOverride # NaN /\ instr.maxTokensOverride > 0)

(* C29: every 200 response of handleGenerate carries a decoding            *)
(* temperature within [0,2] (0..20 tenths) and maxTokens above 0; a        *)
(* request whose overlay, explicit or auto-applied, has a                  *)
(* temperatureOverride outside [0,2] or a maxTokensOverride that is not    *)
(* positive never calls the adapter, and its response is a 500.            *)
C29_DecodingInRangeOrError ==
    \A r \in Requests :
        /\ (req[r].response # Null /\ req[r].response.status = 200) =>
              /\ req[r].response.meta.decoding.temperature \in 0..20
              /\ req[r].response.meta.decoding.maxTokens # NaN
              /\ req[r].response.meta.decoding.maxTokens > 0
        /\ OutOfRangeOverlay(req[r].contextInstr) =>
              /\ req[r].adapterCalls = 0
              /\ req[r].response # Null => req[r].response.status = 500

\* the overlay whose temperatureOverride is not a number is answered with 200
C29_NaNTemperatureAnswered ==
    \E r \in Requests :
        /\ req[r].contextInstr = WordyContext.instruction
        /\ req[r].response # Null
        /\ req[r].response.status = 200
        /\ req[r].response.meta.decoding.temperature = NaN

\* as C29 states it, but for overlays whose numbers are numbers
C29_NumbersInRangeOrError ==
    \A r \in Requests :
        (req[r].contextInstr = Null \/ req[r].contextInstr # WordyContext.instruction) =>
            /\ (req[r].response # Null /\ req[r].response.status = 200) =>
                  /\ req[r].response.meta.decoding.temperature \in 0..20
                  /\ req[r].response.meta.decoding.maxTokens > 0
            /\ OutOfRangeOverlay(req[r].contextInstr) =>
                  /\ req[r].adapterCalls = 0
                  /\ req[r].response # Null => req[r].response.status = 500

\* the request for the overlay of temperature 3.0 ended in a 500
C29_HotOverlayFailed ==
    \E r \in Requests :
        /\ req[r].contextInstr = HotContext.instruction
        /\ req[r].response # Null /\ req[r].response.status = 500
        /\ req[r].adapterCalls = 0

(***************************************************************************)
(* C30: a contexts file that does not parse.                               *)
(***************************************************************************)

\* the file cannot be read, or one of its blocks lacks id, name or description
BrokenFile(file) ==
    \/ ~file.readable
    \/ \E i \in 1..Len(file.blocks) :
          \/ file.blocks[i].id = ""
          \/ file.blocks[i].name = ""
          \/ file.blocks[i].description = ""

\* request q is served from the process-wide table and names an explicit context
NamesContext(q) ==
    /\ q.pc # "idle"
    /\ q.ctxPort = Null
    /\ ~NoPrompt(q.body)
    /\ ExplicitContext(q.body) # ""

(* With a broken file: every table a load produced, and the singleton once *)
(* set, is empty; a request served from it that names a context is, once   *)
(* past its lookup, answered 400 "Unknown context"; no request served from *)
(* it has an overlay, explicit or auto-applied.                            *)
TableStaysEmpty ==
    BrokenFile(env.file) =>
        /\ contextPortSingleton # Null => contextPortSingleton.contexts = <<>>
        /\ \A l \in 1..Len(loads) :
              loads[l].settled => loads[l].failed /\ loads[l].port.contexts = <<>>
        /\ \A r \in Requests :
              /\ (NamesContext(req[r]) /\ req[r].pc # "awaitContext") =>
                    /\ req[r].response # Null
                    /\ req[r].response.status = 400
                    /\ req[r].response.error = "Unknown context"
              /\ (req[r].pc # "idle" /\ req[r].ctxPort = Null) =>
                    /\ req[r].contextInstr = Null
                    /\ req[r].adapterCalls > 0 => ~NamesContext(req[r])

\* once a load of the broken file has settled, no step starts another load
NoLoadAfterFailure ==
    (BrokenFile(env.file) /\ \E l \in 1..Len(loads) : loads[l].settled)
        => Len(loads') = Len(loads)

====
